---- MODULE Spec2Model ----
(***************************************************************************)
(* Model of the publish/subscribe layer of mcp_agent/mcp/pubsub.py:        *)
(* PubSubChannel (local fan-out), RedisPubSubChannel (broker bridge with   *)
(* its background listener) and PubSubManager (the channel registry).      *)
(*                                                                         *)
(* Scheduling is asyncio's: one thread, tasks interleave only at awaits.   *)
(* The variable running names the task that holds the event loop between   *)
(* two of its suspension points; every other task waits for it.            *)
(***************************************************************************)
EXTENDS Integers, Sequences, FiniteSets, TLC

(* ---------------------------- bounds ---------------------------------- *)
MaxInst == 2            \* channel objects ever constructed
MaxPublishes == 2       \* publish calls made by application tasks (Spec)
MaxHistPublishes == 103 \* publish calls made in SpecHist
MaxWirePublishes == 1   \* publish calls made in SpecWire
MaxCalls == 3           \* get_pubsub_manager calls made in SpecSingleton
MaxMcps == 2            \* MCP records stored in SpecHttp
MaxBacklog == 2         \* broker messages waiting for a listener (SpecHistRedis)

(* ------------------------ program constants --------------------------- *)
max_history_length == 100
max_retries == 10

(* ------------------------- finite domains ----------------------------- *)
Topics == {"t", "u"}
Inst == 1..MaxInst
SyncCbs == {"s1"}
AsyncCbs == {"a1", "a2"}
Cbs == SyncCbs \cup AsyncCbs
NoCb == "nocb"
Tasks == {<<"T", 1>>}
AllTasks == Tasks \cup {<<"T", 2>>}
Listener(i) == <<"L", i>>
Procs == AllTasks \cup {Listener(i) : i \in Inst}
NoProc == <<"N", 0>>
NoMsg == [kind |-> "none", v |-> 0]
Regs == {"A", "B"}
DefaultPrefix == "mcp_agent:"
Prefixes == {DefaultPrefix, "p:"}
NoChannel == <<"none", "none">>
NoManager == [id |-> 0]
NoMcp ==
    [id |-> 0, allowed_mcp_id |-> 0, user_address |-> "none",
     fields |-> "none"]
NoResponse == [status |-> 0, detail |-> "none", body |-> NoMcp]
EmptyDb == [users |-> {}, allowed_mcps |-> {}, mcps |-> <<>>]
NoRequest == [user_address |-> "none", allowed_mcp_id |-> 0, fields |-> "none"]
Addresses == {"0xA", "0xB"}
AllowedIds == {1, 2}
FieldValues == {"f1", "f2"}
Absent == "absent"
Hosts == {"h1"}
DefaultHost == "localhost"
NoParams == [host |-> "none"]

VARIABLES
    use_redis,          \* PubSubManager.use_redis
    redis_client,       \* PubSubManager.redis_client: "None" or "client"
    redis_channel_prefix, \* registry -> PubSubManager.redis_channel_prefix
    channels,           \* PubSubManager._channels: topic -> instance, 0 = absent
    peer_channels,      \* _channels of the second registry, B
    redis_channel,      \* instance -> <<prefix, topic>>, its broker channel
    channel_client,     \* instance -> RedisPubSubChannel.redis_client
    ninst,              \* number of channel objects constructed so far
    kind,               \* instance -> "none" | "local" | "redis"
    channel_id,         \* instance -> topic it was created for
    subscribers,        \* instance -> [SyncCbs -> times held]
    async_subscribers,  \* instance -> [AsyncCbs -> times held]
    history,            \* instance -> sequence of messages
    pubsub,             \* instance -> "None" | "unsubscribed" | "subscribed"
    setup_task,         \* instance -> state of the setup_subscription task
    listener_task,      \* instance -> state of the listener_loop task
    retry_count,        \* instance -> listener_loop's retry_count
    inbox,              \* instance -> broker messages queued on its PubSub
    pc,                 \* proc -> position inside publish
    frame,              \* proc -> locals of its publish call
    running,            \* proc holding the event loop, or NoProc
    npub,               \* publish calls made by application tasks
    received,           \* callback -> messages it was invoked with, in order
    pubsub_manager_instance, \* the module's _pubsub_manager_instance
    db,                 \* the tables of the HTTP service's database
    response,           \* the HTTP service's latest response
    redis_config,       \* the dict the application passes as redis_config
    redis_params,       \* registry -> redis_params its client was built with
    obs                 \* observations kept for the properties

vars == <<use_redis, redis_client, redis_channel_prefix, channels,
          peer_channels, redis_channel, ninst, kind, channel_id,
          subscribers, async_subscribers, history, pubsub, setup_task,
          listener_task, retry_count, inbox, pc, frame, running, npub,
          received, obs, channel_client, pubsub_manager_instance, db,
          response, redis_config, redis_params>>

\* What no operation of a channel changes: the fields of the registry, the
\* module's default registry, and the HTTP service.
mgrVars == <<use_redis, redis_client, redis_channel_prefix,
             pubsub_manager_instance, db, response, redis_config,
             redis_params>>
regVars == <<channels, peer_channels, redis_channel, channel_client, ninst,
             kind, channel_id>>
subVars == <<subscribers, async_subscribers>>
lsnVars == <<pubsub, setup_task, listener_task, retry_count>>

(* ------------------------------ messages ------------------------------ *)
\* The n-th message an application task publishes: a dict payload that is
\* distinct from every other published payload.
Dict(n) == [kind |-> "dict", v |-> n]

\* The kinds of Python value a message can be; v tells the values of one
\* kind apart.
\*   dict         a dict with string keys, {"seq": v}
\*   dict_numstr  a dict whose key is a string of digits, {"7": v}
\*   dict_intkey  a dict with an integer key, {7: v}
\*   dict_bad     a dict holding a value json cannot encode, {"at": datetime}
\*   list, str, int, float, bool, null   the JSON-equivalent values
\*   tuple        a tuple, (v,)
\*   model        an object with a to_dict() method returning {"seq": v}
\*   object       any other object; its str() is not JSON
\*   repr         a str holding the str() of a tuple or of an object
JsonKinds == {"dict", "list", "str", "int", "bool", "null"}
PyKinds ==
    JsonKinds \cup {"float", "dict_numstr", "dict_intkey", "dict_bad",
                    "tuple", "model", "object"}

Payload(k, n) == [kind |-> k, v |-> n]

\* json.dumps(x): the JSON text, kept as the JSON type it denotes and the
\* value.  Keys of a dict are coerced to strings; a value json cannot
\* encode raises TypeError.
JsonDumps(x) ==
    CASE x.kind = "dict" -> [form |-> "json", jtype |-> "object", v |-> x.v]
      [] x.kind \in {"dict_numstr", "dict_intkey"} ->
            [form |-> "json", jtype |-> "object_numkey", v |-> x.v]
      [] x.kind = "dict_bad" ->
            [form |-> "error", jtype |-> "TypeError", v |-> 0]
      [] x.kind = "list" -> [form |-> "json", jtype |-> "array", v |-> x.v]
      [] x.kind = "str" -> [form |-> "json", jtype |-> "string", v |-> x.v]
      [] x.kind = "int" -> [form |-> "json", jtype |-> "number", v |-> x.v]
      [] x.kind = "float" ->
            [form |-> "json", jtype |-> "number_float", v |-> x.v]
      [] x.kind = "bool" -> [form |-> "json", jtype |-> "boolean", v |-> x.v]
      [] x.kind = "null" -> [form |-> "json", jtype |-> "null", v |-> x.v]

\* json.loads(text) of a JSON text.
JsonLoads(w) ==
    CASE w.jtype = "object" -> [kind |-> "dict", v |-> w.v]
      [] w.jtype = "object_numkey" -> [kind |-> "dict_numstr", v |-> w.v]
      [] w.jtype = "array" -> [kind |-> "list", v |-> w.v]
      [] w.jtype = "string" -> [kind |-> "str", v |-> w.v]
      [] w.jtype = "number" -> [kind |-> "int", v |-> w.v]
      [] w.jtype = "number_float" -> [kind |-> "float", v |-> w.v]
      [] w.jtype = "boolean" -> [kind |-> "bool", v |-> w.v]
      [] w.jtype = "null" -> [kind |-> "null", v |-> w.v]

\* str(x): text that is not JSON.
Str(x) == [form |-> "text", jtype |-> x.kind, v |-> x.v]

\* isinstance(message, (dict, list, str, int, float, bool, type(None)))
IsJsonType(m) ==
    m.kind \in {"dict", "dict_numstr", "dict_intkey", "dict_bad", "list",
                "str", "int", "float", "bool", "null"}

\* A serialisation that sends a str as it is, without json.dumps.
SerializePassThrough(m) ==
    IF m.kind = "model" THEN JsonDumps(Payload("dict", m.v))
    ELSE IF m.kind = "str" THEN Str(m)
    ELSE IF IsJsonType(m) THEN JsonDumps(m)
    ELSE Str(m)

\* A serialisation that hands every value to str().
SerializeStr(m) == Str(m)

\* The text RedisPubSubChannel.publish sends: json.dumps(message.to_dict()),
\* json.dumps(message) or str(message).
Serialize(m) ==
    IF m.kind = "model" THEN JsonDumps(Payload("dict", m.v))
    ELSE IF IsJsonType(m) THEN JsonDumps(m)
    ELSE Str(m)

\* A listener that delivers the text it received without json.loads.
DeserializeRaw(w) == [kind |-> "repr", v |-> w.v]

\* The str holding text w as it came from the broker.
RawText(w) == [kind |-> "repr", v |-> w.v]

\* A listener that drops a payload json.loads cannot decode.
DeserializeStrict(w) ==
    IF w.form = "json" THEN JsonLoads(w) ELSE NoMsg

\* json.loads(data) with the JSONDecodeError fallback to the raw text.
Deserialize(w) ==
    IF w.form = "json"
    THEN JsonLoads(w)
    ELSE [kind |-> "repr", v |-> w.v]

(* ------------------------- subscriber containers ---------------------- *)
EmptySync == [cb \in SyncCbs |-> 0]
EmptyAsync == [cb \in AsyncCbs |-> 0]

\* list.append(callback): a container that keeps duplicates.
ListAppend(s, cb) == [s EXCEPT ![cb] = @ + 1]

\* A subscribe that leaves the container as it is.
SetAddNothing(s, cb) == s

\* set.add(callback)
SetAdd(s, cb) == [s EXCEPT ![cb] = 1]

\* An unsubscribe that leaves the container as it is.
SetDiscardNothing(s, cb) == s

\* set.discard(callback)
SetDiscard(s, cb) == [s EXCEPT ![cb] = 0]

\* The append without the trim.
HistoryAppendNoTrim(h, m) == Append(h, m)

\* An append working on a copy of the list that was read before another
\* writer appended: the newest entry is overwritten.
HistoryAppendStale(h, m) ==
    IF h = <<>> THEN <<m>> ELSE [h EXCEPT ![Len(h)] = m]

\* The trim keeping the oldest entries instead of the newest.
HistoryAppendKeepOldest(h, m) ==
    LET h1 == Append(h, m)
    IN  IF Len(h1) > max_history_length
        THEN SubSeq(h1, 1, max_history_length)
        ELSE h1

\* self.history.insert(0, message): newest first.
HistoryPrepend(h, m) ==
    LET h1 == <<m>> \o h
    IN  IF Len(h1) > max_history_length
        THEN SubSeq(h1, 1, max_history_length)
        ELSE h1

\* self.history.append(message) followed by the trim to the last
\* max_history_length entries.
HistoryAppend(h, m) ==
    LET h1 == Append(h, m)
    IN  IF Len(h1) > max_history_length
        THEN SubSeq(h1, Len(h1) - max_history_length + 1, Len(h1))
        ELSE h1

(* ------------------------------ frames -------------------------------- *)
\* The locals of one publish call: the channel (ch), the message, the two
\* copies of the subscriber sets (snapS, snapA), how far the loops over them
\* got (invS: invoked, invA: awaited, finA: completed), the coroutine being
\* awaited (cur) and the number of broker sends.  Kept beside them for the
\* properties: the callbacks that raised in this call (failed) and in the
\* caller's previous call (prev_failed), the callbacks registered when the
\* call was made (reg0) and whether every callback had by then been
\* subscribed more than once (dup0), whether the broker send failed, and how
\* the call ended (result).
IdleFrame ==
    [ch |-> 0, msg |-> NoMsg, via_redis |-> FALSE,
     snapS |-> EmptySync, invS |-> EmptySync,
     snapA |-> EmptyAsync, invA |-> EmptyAsync, finA |-> EmptyAsync,
     cur |-> NoCb, failed |-> {}, prev_failed |-> {}, dup0 |-> FALSE,
     sends |-> 0, send_failed |-> FALSE, reg0 |-> {}, result |-> "none"]

\* The callbacks a container holds.
Held(s) == {cb \in DOMAIN s : s[cb] > 0}

\* for subscriber in list(self._subscribers): the entries of the copy not
\* yet visited.
PendingSync(p) ==
    {cb \in SyncCbs : frame[p].invS[cb] < frame[p].snapS[cb]}

\* The asynchronous loop iterating the live set instead of a copy.
PendingAsyncLive(p) ==
    {cb \in AsyncCbs :
        frame[p].invA[cb] < async_subscribers[frame[p].ch][cb]}

\* for subscriber in list(self._async_subscribers)
PendingAsync(p) ==
    {cb \in AsyncCbs : frame[p].invA[cb] < frame[p].snapA[cb]}

\* The loop over the synchronous subscribers without its try/except.
SyncHandlerNoCatch(outcome) ==
    IF outcome = "raise" THEN "propagate" ELSE "continue"

\* except Exception around subscriber(message): what the loop does next.
SyncHandler(outcome) == "continue"

\* The loop over the asynchronous subscribers without its try/except.
AsyncHandlerNoCatch(outcome) ==
    IF outcome = "raise" THEN "propagate" ELSE "continue"

\* except Exception around await subscriber(message)
AsyncHandler(outcome) == "continue"

(* ------------------------------- Init --------------------------------- *)
\* The constructor's inputs: whether use_redis was requested (req), whether
\* the redis package could be imported when the module was loaded (avail,
\* REDIS_AVAILABLE), and how building the client went (built).
Builds == {"ok", "ImportError", "Exception"}

\* A constructor whose except clauses forget self.use_redis = False.
UseRedisKept(req, avail, built) == req /\ avail

\* self.use_redis = use_redis and REDIS_AVAILABLE, reset to False by both
\* except clauses around the construction of the client.
UseRedisAfterInit(req, avail, built) == req /\ avail /\ built = "ok"

\* self.redis_client: assigned only when aioredis.Redis(...) returned.
ClientAfterInit(req, avail, built) ==
    IF req /\ avail /\ built = "ok" THEN "client" ELSE "None"

\* Why a registry that was asked for the broker runs without it.
Degraded(req, avail, built) ==
    IF ~req THEN "none"
    ELSE IF ~avail THEN "unavailable"
    ELSE IF built # "ok" THEN built
    ELSE "none"

\* A redis_config dict: each key holds a value or is absent.  host stands
\* for the connection keys (host, port, db), which the constructor treats
\* alike.  A dict with every key absent is empty; the constructor takes an
\* empty dict and None the same way (both are false in `if redis_config`).
Configs == [channel_prefix : Prefixes \cup {Absent}, host : Hosts \cup {Absent}]
EmptyConfig == [channel_prefix |-> Absent, host |-> Absent]

\* PubSubManager.__init__: use_redis stays set only if a client was built.
\* The model holds two registries, A and B, in one process; B is built
\* with the same arguments as A apart from its channel_prefix, and building
\* its client goes the way it went for A.  The application holds the dict
\* cfg that it passes to the registries it constructs from here on.
InitWith(cfg) ==
    /\ redis_config = cfg
    /\ redis_params = [r \in Regs |-> NoParams]
    /\ redis_channel_prefix \in [Regs -> Prefixes]
    /\ peer_channels = [t \in Topics |-> 0]
    /\ redis_channel = [i \in Inst |-> NoChannel]
    /\ channel_client = [i \in Inst |-> "None"]
    /\ pubsub_manager_instance = NoManager
    /\ db = EmptyDb
    /\ response = NoResponse
    /\ \E req \in BOOLEAN, avail \in BOOLEAN, built \in Builds :
          /\ use_redis = UseRedisAfterInit(req, avail, built)
          /\ redis_client = ClientAfterInit(req, avail, built)
          /\ obs = [last_got |-> [t \in Topics |-> 0],
                    removed_since |-> [t \in Topics |-> FALSE],
                    retired |-> {},
                    dup |-> {},
                    requested |-> req,
                    degraded |-> Degraded(req, avail, built),
                    poll_failed |-> {},
                    nsent |-> 0,
                    want |-> {},
                    got |-> <<"none", 0>>,
                    listed |-> [live |-> FALSE, topics |-> {}],
                    mgr |-> [calls |-> 0, built |-> 0, returned |-> 0,
                             first |-> <<>>, last |-> <<>>],
                    request |-> NoRequest,
                    from_config |-> {}]
    /\ channels = [t \in Topics |-> 0]
    /\ ninst = 0
    /\ kind = [i \in Inst |-> "none"]
    /\ channel_id = [i \in Inst |-> "none"]
    /\ subscribers = [i \in Inst |-> EmptySync]
    /\ async_subscribers = [i \in Inst |-> EmptyAsync]
    /\ history = [i \in Inst |-> <<>>]
    /\ pubsub = [i \in Inst |-> "None"]
    /\ setup_task = [i \in Inst |-> "none"]
    /\ listener_task = [i \in Inst |-> "none"]
    /\ retry_count = [i \in Inst |-> 0]
    /\ inbox = [i \in Inst |-> <<>>]
    /\ pc = [p \in Procs |-> "idle"]
    /\ frame = [p \in Procs |-> IdleFrame]
    /\ running = NoProc
    /\ npub = 0
    /\ received = [cb \in Cbs |-> <<>>]

Init == InitWith(EmptyConfig)

(* ------------------------- registry construction ---------------------- *)
\* 'channel_prefix' in redis_config, for a redis_config that is not empty
HasPrefix(cfg) == cfg.channel_prefix # Absent

\* self.redis_channel_prefix after lines 275-278
PrefixFrom(cfg) ==
    IF HasPrefix(cfg) THEN cfg.channel_prefix ELSE DefaultPrefix

\* The dict after redis_config.pop('channel_prefix'): the key is gone from
\* the caller's dict, which is the object the constructor was given.
Pop(cfg) == [cfg EXCEPT !.channel_prefix = Absent]

\* redis_params: the defaults, updated with what redis_config holds when
\* line 293 is reached, which is after the pop.
ParamsFrom(cfg) ==
    [host |-> IF cfg.host # Absent THEN cfg.host ELSE DefaultHost]

\* PubSubManager(use_redis=req, redis_config=redis_config) constructs the
\* registry the application keeps as r; its _channels starts empty.  The
\* registries of one process are built in one environment, so use_redis
\* and redis_client come out as they did for the registries of Init.
\* redis_params[r] holds the parameters of the client that r holds.
\* obs.from_config: the registries constructed from redis_config.
Construct(r, req, avail, built) ==
    /\ running = NoProc
    /\ req = obs.requested
    /\ Degraded(req, avail, built) = obs.degraded
    /\ UseRedisAfterInit(req, avail, built) = use_redis
    /\ ClientAfterInit(req, avail, built) = redis_client
    /\ redis_channel_prefix' =
          [redis_channel_prefix EXCEPT ![r] = PrefixFrom(redis_config)]
    /\ redis_config' = IF HasPrefix(redis_config) THEN Pop(redis_config)
                       ELSE redis_config
    /\ redis_params' = [redis_params EXCEPT ![r] =
          IF ClientAfterInit(req, avail, built) = "client"
          THEN ParamsFrom(redis_config') ELSE NoParams]
    /\ channels' = IF r = "A" THEN [t \in Topics |-> 0] ELSE channels
    /\ peer_channels' = IF r = "B" THEN [t \in Topics |-> 0]
                        ELSE peer_channels
    /\ obs' = [obs EXCEPT !.from_config = @ \cup {r}]
    /\ UNCHANGED <<use_redis, redis_client, pubsub_manager_instance, db,
                   response, redis_channel, channel_client, ninst, kind,
                   channel_id, subVars, history, lsnVars, inbox, pc, frame,
                   running, npub, received>>

(* ------------------------- default registry --------------------------- *)
\* The PubSubManager object that PubSubManager(use_redis=req,
\* redis_config=...) constructs: id tells the objects apart, pfx is the
\* channel_prefix of redis_config, DefaultPrefix when the key is absent.
NewManager(id, req, pfx, avail, built) ==
    [id |-> id,
     use_redis |-> UseRedisAfterInit(req, avail, built),
     redis_client |-> ClientAfterInit(req, avail, built),
     redis_channel_prefix |-> pfx]

\* An accessor that constructs a registry on every call.
InstanceIsNoneAlways(m) == TRUE

\* if _pubsub_manager_instance is None
InstanceIsNone(m) == m = NoManager

\* get_pubsub_manager(use_redis, redis_config).  obs.mgr keeps the number
\* of calls, the number of PubSubManager objects constructed, the object
\* the latest call returned, and the arguments and environment of the
\* first and of the latest call.
GetPubsubManager(req, pfx, avail, built) ==
    /\ running = NoProc
    /\ LET fresh == InstanceIsNone(pubsub_manager_instance)
           inst == IF fresh
                   THEN NewManager(obs.mgr.built + 1, req, pfx, avail, built)
                   ELSE pubsub_manager_instance
       IN  /\ pubsub_manager_instance' = inst
           /\ obs' = [obs EXCEPT !.mgr =
                 [calls |-> @.calls + 1,
                  built |-> IF fresh THEN @.built + 1 ELSE @.built,
                  returned |-> inst.id,
                  first |-> IF @.calls = 0
                            THEN <<req, pfx, avail, built>> ELSE @.first,
                  last |-> <<req, pfx, avail, built>>]]
    /\ UNCHANGED <<use_redis, redis_client, redis_channel_prefix, db,
                   redis_config, redis_params, response, regVars, subVars, history, lsnVars, inbox, pc,
                   frame, running, npub, received>>

(* --------------------------- HTTP service ----------------------------- *)
\* A User row is committed (the tests' test_user fixture).
AddUser(a) ==
    /\ running = NoProc
    /\ db' = [db EXCEPT !.users = @ \cup {a}]
    /\ UNCHANGED <<use_redis, redis_client, redis_channel_prefix,
                   redis_config, redis_params,
                   pubsub_manager_instance, response, regVars, subVars,
                   history, lsnVars, inbox, pc, frame, running, npub,
                   received, obs>>

\* An AllowedMCP row is committed (the test_allowed_mcp fixture); the
\* database numbers the rows.
AddAllowedMcp ==
    /\ running = NoProc
    /\ Cardinality(db.allowed_mcps) < Cardinality(AllowedIds)
    /\ db' = [db EXCEPT !.allowed_mcps =
                  @ \cup {Cardinality(db.allowed_mcps) + 1}]
    /\ UNCHANGED <<use_redis, redis_client, redis_channel_prefix,
                   redis_config, redis_params,
                   pubsub_manager_instance, response, regVars, subVars,
                   history, lsnVars, inbox, pc, frame, running, npub,
                   received, obs>>

\* raise HTTPException(status_code=404, detail=...)
NotFound(detail) == [status |-> 404, detail |-> detail, body |-> NoMcp]

\* The checks of add_mcp with the allowed MCP looked up first.
ValidateAllowedFirst(req) ==
    IF req.allowed_mcp_id \notin db.allowed_mcps THEN "Allowed MCP not found"
    ELSE IF req.user_address \notin db.users THEN "User not found"
    ELSE "ok"

\* The two checks of add_mcp: the user row, then the allowed MCP row.
Validate(req) ==
    IF req.user_address \notin db.users THEN "User not found"
    ELSE IF req.allowed_mcp_id \notin db.allowed_mcps
         THEN "Allowed MCP not found"
    ELSE "ok"

\* The MCP row add_mcp stores for request req; db.refresh gives it the
\* next id.  fields stands for mcp_json, mcp_env_keys and
\* tool_calls_count.
NewMcp(req) ==
    [id |-> Len(db.mcps) + 1,
     allowed_mcp_id |-> req.allowed_mcp_id,
     user_address |-> req.user_address,
     fields |-> req.fields]

\* POST /mcp/add with a body that passed validation.  obs.request keeps
\* the body.
AddMcp(req) ==
    /\ running = NoProc
    /\ obs' = [obs EXCEPT !.request = req]
    /\ IF Validate(req) # "ok"
       THEN /\ response' = NotFound(Validate(req))
            /\ db' = db
       ELSE /\ Len(db.mcps) < MaxMcps
            /\ db' = [db EXCEPT !.mcps = Append(@, NewMcp(req))]
            /\ response' = [status |-> 201, detail |-> "none",
                            body |-> NewMcp(req)]
    /\ UNCHANGED <<use_redis, redis_client, redis_channel_prefix,
                   redis_config, redis_params,
                   pubsub_manager_instance, regVars, subVars, history,
                   lsnVars, inbox, pc, frame, running, npub, received>>

(* ----------------------------- registry ------------------------------- *)
\* obs keeps what the callers of the registry saw: the channel returned by
\* the latest get_or_create_channel(t), whether remove_channel(t) was
\* called since, and the channels that were removed.
Returned(t, r) ==
    [obs EXCEPT !.last_got[t] = r, !.removed_since[t] = FALSE]

\* A registry lookup that never finds the topic.
KnownNever(t) == FALSE

\* channel_id in self._channels
Known(t) == channels[t] # 0

\* A broker channel name that leaves the configured prefix out.
RedisChannelNoPrefix(pfx, t) == <<DefaultPrefix, t>>

\* f"{redis_channel_prefix}{channel_id}"
RedisChannelName(pfx, t) == <<pfx, t>>

\* A registry that hands its channels no client.
ChannelClientMissing == "None"

\* redis_client=self.redis_client, the argument get_or_create_channel
\* passes to RedisPubSubChannel.
ChannelClient == redis_client

\* The constructor call in get_or_create_channel of registry reg: the i-th
\* channel object, a RedisPubSubChannel with its setup and listener tasks
\* when the registry holds a client, a PubSubChannel otherwise.
\* self.redis_client = redis_client.
\* self.redis_channel = f"{redis_channel_prefix}{channel_id}".
NewChannel(i, t, reg) ==
    LET redis == use_redis /\ redis_client # "None"
    IN  /\ ninst' = i
        /\ channel_client' = [channel_client EXCEPT ![i] =
              IF redis THEN ChannelClient ELSE "None"]
        /\ kind' = [kind EXCEPT ![i] = IF redis THEN "redis" ELSE "local"]
        /\ channel_id' = [channel_id EXCEPT ![i] = t]
        /\ redis_channel' = [redis_channel EXCEPT ![i] =
              IF redis THEN RedisChannelName(redis_channel_prefix[reg], t)
              ELSE NoChannel]
        /\ setup_task' = [setup_task EXCEPT ![i] =
                             IF redis THEN "created" ELSE "none"]
        /\ listener_task' = [listener_task EXCEPT ![i] =
                             IF redis THEN "created" ELSE "none"]
        /\ UNCHANGED <<pubsub, retry_count>>

\* PubSubManager.get_or_create_channel
GetOrCreate(t) ==
    /\ running = NoProc
    /\ IF Known(t)
       THEN /\ obs' = Returned(t, channels[t])
            /\ UNCHANGED <<regVars, lsnVars>>
       ELSE /\ ninst < MaxInst
            /\ NewChannel(ninst + 1, t, "A")
            /\ channels' = [channels EXCEPT ![t] = ninst + 1]
            /\ obs' = Returned(t, ninst + 1)
            /\ UNCHANGED peer_channels
    /\ UNCHANGED <<mgrVars, subVars, history, inbox, pc, frame, running,
                   npub, received>>

\* get_or_create_channel called on registry B.
PeerGetOrCreate(t) ==
    /\ running = NoProc
    /\ IF peer_channels[t] # 0
       THEN UNCHANGED <<regVars, lsnVars>>
       ELSE /\ ninst < MaxInst
            /\ NewChannel(ninst + 1, t, "B")
            /\ peer_channels' = [peer_channels EXCEPT ![t] = ninst + 1]
            /\ UNCHANGED channels
    /\ UNCHANGED <<mgrVars, subVars, history, inbox, pc, frame, running,
                   npub, received, obs>>

\* PubSubManager.remove_channel
Remove(t) ==
    /\ running = NoProc
    /\ channels' = IF Known(t) THEN [channels EXCEPT ![t] = 0] ELSE channels
    /\ obs' = [obs EXCEPT !.removed_since[t] = TRUE,
                          !.retired = IF channels[t] # 0
                                      THEN @ \cup {channels[t]} ELSE @]
    /\ UNCHANGED <<mgrVars, peer_channels, redis_channel, channel_client,
                   ninst, kind, channel_id, subVars, history, lsnVars, inbox, pc, frame,
                   running, npub, received>>

\* self._channels.keys()
Keys == {t \in Topics : channels[t] # 0}

\* PubSubManager.get_channel: self._channels.get(channel_id), 0 for None.
\* obs.got keeps the topic asked for and the result.
GetChannel(t) ==
    /\ running = NoProc
    /\ obs' = [obs EXCEPT !.got = <<t, channels[t]>>]
    /\ UNCHANGED <<mgrVars, regVars, subVars, history, lsnVars, inbox, pc,
                   frame, running, npub, received>>

\* A result that is the dict's live key view instead of a copy.
KeysView(ks) == [live |-> TRUE, topics |-> ks]

\* list(...): a new list holding the keys.
ListCopy(ks) == [live |-> FALSE, topics |-> ks]

\* PubSubManager.list_channels.  obs.listed keeps the returned object.
ListChannels ==
    /\ running = NoProc
    /\ obs' = [obs EXCEPT !.listed = ListCopy(Keys)]
    /\ UNCHANGED <<mgrVars, regVars, subVars, history, lsnVars, inbox, pc,
                   frame, running, npub, received>>

(* --------------------------- subscriptions ---------------------------- *)
\* One call of subscribe / unsubscribe / subscribe_async /
\* unsubscribe_async on channel i, as a pair <<method, callback>>.
Calls ==
    ({"subscribe", "unsubscribe"} \X SyncCbs)
        \cup ({"subscribe_async", "unsubscribe_async"} \X AsyncCbs)

Effects == {<<"none", NoCb>>} \cup Calls

SubscribersAfter(i, c) ==
    IF c[1] = "subscribe" THEN SetAdd(subscribers[i], c[2])
    ELSE IF c[1] = "unsubscribe" THEN SetDiscard(subscribers[i], c[2])
    ELSE subscribers[i]

AsyncSubscribersAfter(i, c) ==
    IF c[1] = "subscribe_async" THEN SetAdd(async_subscribers[i], c[2])
    ELSE IF c[1] = "unsubscribe_async"
         THEN SetDiscard(async_subscribers[i], c[2])
    ELSE async_subscribers[i]

\* obs.dup keeps the <<channel, callback>> pairs for which a subscribe call
\* was made while the callback was already subscribed, until it is
\* unsubscribed.
DupAfter(i, c) ==
    IF c[1] = "subscribe" /\ subscribers[i][c[2]] > 0
        THEN obs.dup \cup {<<i, c[2]>>}
    ELSE IF c[1] = "subscribe_async" /\ async_subscribers[i][c[2]] > 0
        THEN obs.dup \cup {<<i, c[2]>>}
    ELSE IF c[1] \in {"unsubscribe", "unsubscribe_async"}
        THEN obs.dup \ {<<i, c[2]>>}
    ELSE obs.dup

\* obs.want keeps the <<channel, callback>> pairs whose latest call was a
\* subscribe.
WantAfter(i, c) ==
    IF c[1] \in {"subscribe", "subscribe_async"}
        THEN obs.want \cup {<<i, c[2]>>}
    ELSE IF c[1] \in {"unsubscribe", "unsubscribe_async"}
        THEN obs.want \ {<<i, c[2]>>}
    ELSE obs.want

\* The effect of call c on the subscriber containers of channel i.
ApplyCall(i, c) ==
    /\ subscribers' = [subscribers EXCEPT ![i] = SubscribersAfter(i, c)]
    /\ async_subscribers' =
          [async_subscribers EXCEPT ![i] = AsyncSubscribersAfter(i, c)]
    /\ obs' = [obs EXCEPT !.dup = DupAfter(i, c), !.want = WantAfter(i, c)]

\* PubSubChannel.subscribe, called by application code between two awaits
Subscribe(i, cb) ==
    /\ running = NoProc
    /\ kind[i] # "none"
    /\ ApplyCall(i, <<"subscribe", cb>>)
    /\ UNCHANGED <<mgrVars, regVars, history, lsnVars, inbox, pc, frame,
                   running, npub, received>>

\* PubSubChannel.unsubscribe
Unsubscribe(i, cb) ==
    /\ running = NoProc
    /\ kind[i] # "none"
    /\ ApplyCall(i, <<"unsubscribe", cb>>)
    /\ UNCHANGED <<mgrVars, regVars, history, lsnVars, inbox, pc, frame,
                   running, npub, received>>

\* PubSubChannel.subscribe_async
SubscribeAsync(i, cb) ==
    /\ running = NoProc
    /\ kind[i] # "none"
    /\ ApplyCall(i, <<"subscribe_async", cb>>)
    /\ UNCHANGED <<mgrVars, regVars, history, lsnVars, inbox, pc, frame,
                   running, npub, received>>

\* PubSubChannel.unsubscribe_async
UnsubscribeAsync(i, cb) ==
    /\ running = NoProc
    /\ kind[i] # "none"
    /\ ApplyCall(i, <<"unsubscribe_async", cb>>)
    /\ UNCHANGED <<mgrVars, regVars, history, lsnVars, inbox, pc, frame,
                   running, npub, received>>

(* ------------------------------ publish ------------------------------- *)
\* Entry of PubSubChannel.publish(message) on channel i by proc p: the
\* history append and the copy of the synchronous subscriber set.
\* via_redis tells whether the call entered through
\* RedisPubSubChannel.publish.
BeginPublish(p, i, m, via) ==
    /\ history' = [history EXCEPT ![i] = HistoryAppend(@, m)]
    /\ frame' = [frame EXCEPT ![p] =
          [IdleFrame EXCEPT !.ch = i, !.msg = m, !.via_redis = via,
                            !.snapS = subscribers[i],
                            !.reg0 = Held(subscribers[i])
                                       \cup Held(async_subscribers[i]),
                            !.prev_failed = frame[p].failed,
                            !.dup0 = \A cb \in Cbs : <<i, cb>> \in obs.dup,
                            !.result = "running"]]
    /\ pc' = [pc EXCEPT ![p] = "sync"]
    /\ running' = p

\* The publish call of proc p ends with result r ("returned" or "raised").
\* A task goes back to its caller; the listener's loop catches whatever
\* its PubSubChannel.publish raised and goes to its sleep(0.01).
EndPublish(p, r, fr) ==
    /\ frame' = [frame EXCEPT ![p] = [fr EXCEPT !.result = r]]
    /\ pc' = [pc EXCEPT ![p] = "idle"]
    /\ running' = NoProc
    /\ listener_task' =
          IF p \in AllTasks THEN listener_task
          ELSE [listener_task EXCEPT ![p[2]] = "sleep"]

\* await channel.publish(message) called by an application task
Publish(p, i) ==
    /\ running = NoProc
    /\ p \in AllTasks
    /\ pc[p] = "idle"
    /\ kind[i] # "none"
    /\ npub' = npub + 1
    /\ BeginPublish(p, i, Dict(npub + 1), kind[i] = "redis")
    /\ UNCHANGED <<mgrVars, regVars, subVars, lsnVars, inbox, received, obs>>

\* await channel.publish(message) with a message of kind k
PublishPayload(p, i, k) ==
    /\ running = NoProc
    /\ p \in AllTasks
    /\ pc[p] = "idle"
    /\ kind[i] # "none"
    /\ npub' = npub + 1
    /\ BeginPublish(p, i, Payload(k, npub + 1), kind[i] = "redis")
    /\ UNCHANGED <<mgrVars, regVars, subVars, lsnVars, inbox, received, obs>>

\* await channel.publish(None): the same message on every call.
Tick == Payload("null", 0)

PublishTick(p, i) ==
    /\ running = NoProc
    /\ p \in AllTasks
    /\ pc[p] = "idle"
    /\ kind[i] # "none"
    /\ npub' = npub + 1
    /\ BeginPublish(p, i, Tick, kind[i] = "redis")
    /\ UNCHANGED <<mgrVars, regVars, subVars, lsnVars, inbox, received, obs>>

\* One pass of the loop over list(self._subscribers): the callback runs
\* in-line, possibly calling back into the channel (eff), and returns or
\* raises.
SyncInvoke(p, cb, eff, outcome) ==
    /\ running = p
    /\ pc[p] = "sync"
    /\ cb \in PendingSync(p)
    /\ received' = [received EXCEPT ![cb] = Append(@, frame[p].msg)]
    /\ ApplyCall(frame[p].ch, eff)
    /\ LET fr == [frame[p] EXCEPT
                     !.invS[cb] = @ + 1,
                     !.failed = IF outcome = "raise" THEN @ \cup {cb} ELSE @]
       IN  IF outcome = "raise" /\ SyncHandler(outcome) # "continue"
           THEN EndPublish(p, "raised", fr)
           ELSE /\ frame' = [frame EXCEPT ![p] = fr]
                /\ UNCHANGED <<pc, running, listener_task>>
    /\ UNCHANGED <<mgrVars, regVars, history, pubsub, setup_task,
                   retry_count, inbox, npub>>

\* The synchronous loop is exhausted: list(self._async_subscribers) is
\* evaluated.
SyncEnd(p) ==
    /\ running = p
    /\ pc[p] = "sync"
    /\ PendingSync(p) = {}
    /\ frame' = [frame EXCEPT ![p].snapA = async_subscribers[frame[p].ch]]
    /\ pc' = [pc EXCEPT ![p] = "async"]
    /\ UNCHANGED <<mgrVars, regVars, subVars, history, lsnVars, inbox,
                   running, npub, received, obs>>

\* One pass of the loop over the asynchronous copy: await subscriber(message).
\* The coroutine runs until it returns, raises, or suspends on an await of
\* its own (mode).
AsyncInvoke(p, cb, eff, mode) ==
    /\ running = p
    /\ pc[p] = "async"
    /\ cb \in PendingAsync(p)
    /\ received' = [received EXCEPT ![cb] = Append(@, frame[p].msg)]
    /\ ApplyCall(frame[p].ch, eff)
    /\ IF mode = "suspend"
       THEN /\ frame' = [frame EXCEPT ![p].invA[cb] = @ + 1, ![p].cur = cb]
            /\ pc' = [pc EXCEPT ![p] = "await"]
            /\ running' = NoProc
            /\ UNCHANGED listener_task
       ELSE LET fr == [frame[p] EXCEPT
                          !.invA[cb] = @ + 1,
                          !.finA[cb] = @ + 1,
                          !.failed = IF mode = "raise" THEN @ \cup {cb} ELSE @]
            IN  IF mode = "raise" /\ AsyncHandler(mode) # "continue"
                THEN EndPublish(p, "raised", fr)
                ELSE /\ frame' = [frame EXCEPT ![p] = fr]
                     /\ UNCHANGED <<pc, running, listener_task>>
    /\ UNCHANGED <<mgrVars, regVars, history, pubsub, setup_task,
                   retry_count, inbox, npub>>

\* The awaited subscriber coroutine completes (returns or raises) and the
\* publish call resumes.
AsyncResume(p, outcome) ==
    /\ running = NoProc
    /\ pc[p] = "await"
    /\ LET cb == frame[p].cur
           fr == [frame[p] EXCEPT
                     !.finA[cb] = @ + 1,
                     !.cur = NoCb,
                     !.failed = IF outcome = "raise" THEN @ \cup {cb} ELSE @]
       IN  IF outcome = "raise" /\ AsyncHandler(outcome) # "continue"
           THEN EndPublish(p, "raised", fr)
           ELSE /\ frame' = [frame EXCEPT ![p] = fr]
                /\ pc' = [pc EXCEPT ![p] = "async"]
                /\ running' = p
                /\ UNCHANGED listener_task
    /\ UNCHANGED <<mgrVars, regVars, subVars, history, pubsub, setup_task,
                   retry_count, inbox, npub, received, obs>>

\* A loop that is left after its first subscriber.
AsyncLoopDoneEarly(p) ==
    \/ PendingAsync(p) = {}
    \/ \E cb \in AsyncCbs : frame[p].invA[cb] > 0

\* The asynchronous loop is exhausted.
AsyncLoopDone(p) == PendingAsync(p) = {}

\* RedisPubSubChannel.publish without the try/except around the send.
SendHandlerNoCatch(outcome) == "propagate"

\* except Exception around the serialisation and the broker send: what
\* RedisPubSubChannel.publish does after a failed send.
SendHandler(outcome) == "return"

\* End of PubSubChannel.publish.  A call that came through
\* RedisPubSubChannel.publish on a channel holding a client goes on to
\* serialise the message and awaits redis_client.publish; any other call returns.  A TypeError of json.dumps
\* is caught by the except clause around the send: nothing is sent.
AsyncEnd(p) ==
    /\ running = p
    /\ pc[p] = "async"
    /\ AsyncLoopDone(p)
    /\ IF frame[p].via_redis /\ channel_client[frame[p].ch] # "None"
       THEN IF Serialize(frame[p].msg).form = "error"
            THEN /\ EndPublish(p, IF SendHandler("raise") = "return"
                                  THEN "returned" ELSE "raised",
                               [frame[p] EXCEPT !.send_failed = TRUE])
                 /\ UNCHANGED obs
            ELSE /\ frame' = [frame EXCEPT ![p].sends = @ + 1]
                 /\ pc' = [pc EXCEPT ![p] = "sending"]
                 /\ running' = NoProc
                 /\ obs' = [obs EXCEPT !.nsent = @ + 1]
                 /\ UNCHANGED listener_task
       ELSE /\ EndPublish(p, "returned", frame[p])
            /\ UNCHANGED obs
    /\ UNCHANGED <<mgrVars, regVars, subVars, history, pubsub, setup_task,
                   retry_count, inbox, npub, received>>

\* The PubSub connections the broker delivers a message of channel i to:
\* every subscription to the same broker channel, the sender's included.
Subscribed(i) ==
    {j \in Inst :
        pubsub[j] = "subscribed" /\ redis_channel[j] = redis_channel[i]}

\* await self.redis_client.publish(self.redis_channel, message_data)
\* completes: the broker took the message (ok) or the send raised.
SendDone(p, ok) ==
    /\ running = NoProc
    /\ pc[p] = "sending"
    /\ inbox' = IF ok
                THEN [j \in Inst |->
                        IF j \in Subscribed(frame[p].ch)
                        THEN Append(inbox[j], Serialize(frame[p].msg))
                        ELSE inbox[j]]
                ELSE inbox
    /\ LET fr == [frame[p] EXCEPT !.send_failed = ~ok]
       IN  IF ok \/ SendHandler("raise") = "return"
           THEN EndPublish(p, "returned", fr)
           ELSE IF SendHandler("raise") = "retry"
           THEN /\ frame' = [frame EXCEPT ![p] = [fr EXCEPT !.sends = @ + 1]]
                /\ UNCHANGED <<pc, running, listener_task>>
           ELSE EndPublish(p, "raised", fr)
    /\ UNCHANGED <<mgrVars, regVars, subVars, history, pubsub, setup_task,
                   retry_count, npub, received, obs>>

(* ------------------------- broker subscription ------------------------ *)
\* setup_subscription up to its await: self._pubsub = redis_client.pubsub()
SetupStart(i) ==
    /\ running = NoProc
    /\ setup_task[i] = "created"
    /\ pubsub' = [pubsub EXCEPT ![i] = "unsubscribed"]
    /\ setup_task' = [setup_task EXCEPT ![i] = "subscribing"]
    /\ UNCHANGED <<mgrVars, regVars, subVars, history, listener_task,
                   retry_count, inbox, pc, frame, running, npub, received,
                   obs>>

\* await self._pubsub.subscribe(self.redis_channel) completes: the PubSub
\* object reports subscribed, or the call raised and
\* _wait_for_subscription_ready logged the error.
SetupFinish(i, ok) ==
    /\ running = NoProc
    /\ setup_task[i] = "subscribing"
    /\ pubsub' = [pubsub EXCEPT ![i] = IF ok THEN "subscribed" ELSE @]
    /\ setup_task' = [setup_task EXCEPT ![i] = IF ok THEN "done" ELSE "failed"]
    /\ UNCHANGED <<mgrVars, regVars, subVars, history, listener_task,
                   retry_count, inbox, pc, frame, running, npub, received,
                   obs>>

(* ------------------------------ listener ------------------------------ *)
\* A wait condition that only asks whether the PubSub object exists.
ReadyIfCreated(i) == pubsub[i] # "None"

\* The negation of listener_loop's wait condition:
\* hasattr(channel, '_pubsub') and getattr(channel._pubsub, 'subscribed', False)
Ready(i) == pubsub[i] = "subscribed"

\* if retry_count >= max_retries: return
GiveUpEarly(n) == n >= max_retries

\* if retry_count > max_retries: return
GiveUp(n) == n > max_retries

\* One evaluation of the readiness loop's condition, at the start of the
\* task or after a sleep(0.5).  The tasks start in creation order, so
\* setup_subscription has run to its await before the first evaluation.
\* retry_count is a local that nothing reads once the loop is left for the
\* consume loop: there the model forgets its value.
ListenerCheck(i) ==
    /\ running = NoProc
    /\ listener_task[i] \in {"created", "waiting"}
    /\ setup_task[i] # "created"
    /\ IF Ready(i)
       THEN /\ listener_task' = [listener_task EXCEPT ![i] = "polling"]
            /\ retry_count' = [retry_count EXCEPT ![i] = 0]
       ELSE /\ retry_count' = [retry_count EXCEPT ![i] = @ + 1]
            /\ listener_task' = [listener_task EXCEPT ![i] =
                  IF GiveUp(retry_count[i] + 1) THEN "done" ELSE "waiting"]
    /\ UNCHANGED <<mgrVars, regVars, subVars, history, pubsub, setup_task,
                   inbox, pc, frame, running, npub, received, obs>>

\* A consume loop whose try/except sits outside the while: the first error
\* ends the task.
ListenerHandlerOutside(outcome) ==
    IF outcome = "error" THEN "done" ELSE "sleep"

\* except Exception inside the while True: after logging, the loop goes on
\* to its sleep(0.01) whatever the cycle did.
ListenerHandler(outcome) == "sleep"

\* The listener handing a broker message to channel_instance.publish, the
\* overriding method that also sends to the broker.
ListenerRepublishes == TRUE

\* await PubSubChannel.publish(channel_instance, data): the base class
\* method, so the call does not go through RedisPubSubChannel.publish.
ListenerViaRedis == FALSE

\* await self._pubsub.get_message(...) completes with a message, with None
\* or with an exception (an exception raised while decoding the data takes
\* the same path).  A message is decoded and handed to
\* PubSubChannel.publish; otherwise the loop goes to its sleep(0.01).
ListenerPoll(i, outcome) ==
    /\ running = NoProc
    /\ listener_task[i] = "polling"
    /\ IF outcome = "message"
       THEN /\ inbox[i] # <<>>
            /\ inbox' = [inbox EXCEPT ![i] = Tail(@)]
            /\ listener_task' = [listener_task EXCEPT ![i] = "publishing"]
            /\ BeginPublish(Listener(i), i, Deserialize(Head(inbox[i])),
                            ListenerViaRedis)
            /\ UNCHANGED obs
       ELSE /\ listener_task' =
                  [listener_task EXCEPT ![i] = ListenerHandler(outcome)]
            /\ obs' = [obs EXCEPT !.poll_failed =
                          IF outcome = "error" THEN @ \cup {i} ELSE @]
            /\ UNCHANGED <<inbox, history, pc, frame, running>>
    /\ UNCHANGED <<mgrVars, regVars, subVars, pubsub, setup_task,
                   retry_count, npub, received>>

\* await asyncio.sleep(0.01) completes; the loop polls again.
ListenerWake(i) ==
    /\ running = NoProc
    /\ listener_task[i] = "sleep"
    /\ listener_task' = [listener_task EXCEPT ![i] = "polling"]
    /\ UNCHANGED <<mgrVars, regVars, subVars, history, pubsub, setup_task,
                   retry_count, inbox, pc, frame, running, npub, received,
                   obs>>

\* listener_task.cancel(), by the event loop's shutdown or by application
\* code: CancelledError is raised at the await where the listener is
\* suspended.  Nothing in listener_loop handles it: there is no finally and
\* no unsubscribe or close call.  Where CancelledError is a BaseException
\* the task ends; where it derives from Exception (Python 3.7) the except
\* clause around get_message swallows it (caught) and the loop goes on.
\* The task is cancelled at one of its awaits: the sleep(0.5) of the
\* readiness loop, get_message, the await of a subscriber, or sleep(0.01).
ListenerCancel(i, caught) ==
    /\ running = NoProc
    /\ \/ listener_task[i] \in {"waiting", "polling", "sleep"}
       \/ listener_task[i] = "publishing" /\ pc[Listener(i)] = "await"
    /\ caught => listener_task[i] = "polling"
    /\ listener_task' = [listener_task EXCEPT ![i] =
                            IF caught THEN "sleep" ELSE "cancelled"]
    /\ IF listener_task[i] = "publishing"
       THEN /\ pc' = [pc EXCEPT ![Listener(i)] = "idle"]
            /\ frame' = [frame EXCEPT ![Listener(i)].result = "cancelled",
                                      ![Listener(i)].cur = NoCb]
       ELSE UNCHANGED <<pc, frame>>
    /\ UNCHANGED <<mgrVars, regVars, subVars, history, pubsub, setup_task,
                   retry_count, inbox, running, npub, received, obs>>

(* ------------------------------- Next --------------------------------- *)
Outcomes == {"return", "raise"}
Modes == {"return", "raise", "suspend"}

\* A process with the broker switched off: one local channel on which
\* application code subscribes, unsubscribes and publishes.
InitLocal ==
    /\ Init
    /\ use_redis = FALSE
    /\ ~obs.requested
    /\ redis_channel_prefix = [r \in Regs |-> DefaultPrefix]

\* A coroutine callback that itself subscribes or unsubscribes is the
\* callback suspended at its await while the Subscribe or Unsubscribe step is
\* taken; the reachable states are those of the effect taken in the same step.
Next ==
    \/ \E t \in {"t"} : GetOrCreate(t)
    \/ \E i \in Inst, cb \in SyncCbs : Subscribe(i, cb)
    \/ \E i \in Inst, cb \in SyncCbs : Unsubscribe(i, cb)
    \/ \E i \in Inst, cb \in AsyncCbs : SubscribeAsync(i, cb)
    \/ \E i \in Inst, cb \in AsyncCbs : UnsubscribeAsync(i, cb)
    \/ \E p \in Tasks, i \in Inst : npub < MaxPublishes /\ Publish(p, i)
    \/ \E p \in Tasks, cb \in SyncCbs, eff \in Effects, o \in Outcomes :
          SyncInvoke(p, cb, eff, o)
    \/ \E p \in Tasks : SyncEnd(p)
    \/ \E p \in Tasks, cb \in AsyncCbs, m \in Modes :
          AsyncInvoke(p, cb, <<"none", NoCb>>, m)
    \/ \E p \in Tasks, o \in Outcomes : AsyncResume(p, o)
    \/ \E p \in Tasks : AsyncEnd(p)

Spec == InitLocal /\ [][Next]_vars

\* The registry of a process with the broker switched off: channels are
\* created, removed and created again, and used in between.
NextRegistry ==
    \/ \E t \in Topics : GetOrCreate(t)
    \/ \E t \in Topics : Remove(t)
    \/ \E i \in Inst, cb \in SyncCbs : Subscribe(i, cb)
    \/ \E i \in Inst, cb \in SyncCbs : Unsubscribe(i, cb)
    \/ \E p \in Tasks, i \in Inst : npub < MaxPublishes /\ Publish(p, i)
    \/ \E p \in Tasks, cb \in SyncCbs, o \in Outcomes :
          SyncInvoke(p, cb, <<"none", NoCb>>, o)
    \/ \E p \in Tasks : SyncEnd(p)
    \/ \E p \in Tasks : AsyncEnd(p)

SpecRegistry == InitLocal /\ [][NextRegistry]_vars

\* A process whose registry holds a broker client: one distributed
\* channel with its setup task, its listener and the broker, and one
\* asynchronous subscriber.
InitRedis ==
    /\ Init
    /\ use_redis = TRUE
    /\ redis_channel_prefix = [r \in Regs |-> DefaultPrefix]

NextRedis ==
    \/ \E t \in {"t"} : GetOrCreate(t)
    \/ \E i \in Inst, cb \in {"a1"} : SubscribeAsync(i, cb)
    \/ \E p \in Tasks, i \in Inst : npub < MaxPublishes /\ Publish(p, i)
    \/ \E p \in Procs : SyncEnd(p)
    \/ \E p \in Procs, cb \in AsyncCbs, m \in Modes :
          AsyncInvoke(p, cb, <<"none", NoCb>>, m)
    \/ \E p \in Procs, o \in Outcomes : AsyncResume(p, o)
    \/ \E p \in Procs : AsyncEnd(p)
    \/ \E p \in Procs, ok \in BOOLEAN : SendDone(p, ok)
    \/ \E i \in Inst : SetupStart(i)
    \/ \E i \in Inst, ok \in BOOLEAN : SetupFinish(i, ok)
    \/ \E i \in Inst : ListenerCheck(i)
    \/ \E i \in Inst, o \in {"message", "none", "error"} : ListenerPoll(i, o)
    \/ \E i \in Inst : ListenerWake(i)

SpecRedis == InitRedis /\ [][NextRedis]_vars

\* The event loop runs every task that is ready: the task holding the loop
\* runs on to its next await, and a sleeping listener is woken.
Continue ==
    \E p \in Procs :
        \/ SyncEnd(p)
        \/ AsyncEnd(p)
        \/ \E cb \in AsyncCbs, m \in Modes :
              AsyncInvoke(p, cb, <<"none", NoCb>>, m)

FairRedis ==
    /\ WF_vars(Continue)
    /\ \A i \in Inst : WF_vars(SetupStart(i))
    /\ \A i \in Inst : WF_vars(ListenerCheck(i))

SpecRedisFair == SpecRedis /\ FairRedis

\* The broker process of SpecRedis whose listener tasks may be cancelled.
NextShutdown ==
    \/ NextRedis
    \/ \E i \in Inst, caught \in BOOLEAN : ListenerCancel(i, caught)

SpecShutdown == InitRedis /\ [][NextShutdown]_vars

\* Two registries on one working broker, each with a distributed channel
\* for topic t: registry A's prefix is "p:", registry B's is chosen at
\* construction.  a1 subscribes to A's channel, a2 to B's, and application
\* code publishes on A's channel.  The broker accepts every send and every
\* subscribe.
InitBridge ==
    /\ Init
    /\ use_redis = TRUE
    /\ redis_channel_prefix["A"] = "p:"

BridgeSteps ==
    \/ GetOrCreate("t")
    \/ PeerGetOrCreate("t")
    \/ \E i \in Inst : i = channels["t"] /\ SubscribeAsync(i, "a1")
    \/ \E i \in Inst : i = peer_channels["t"] /\ SubscribeAsync(i, "a2")
    \/ \E p \in Procs : SyncEnd(p)
    \/ \E p \in Procs, cb \in AsyncCbs :
          AsyncInvoke(p, cb, <<"none", NoCb>>, "return")
    \/ \E p \in Procs : AsyncEnd(p)
    \/ \E p \in Procs : SendDone(p, TRUE)
    \/ \E i \in Inst : SetupStart(i)
    \/ \E i \in Inst : SetupFinish(i, TRUE)
    \/ \E i \in Inst : ListenerCheck(i)
    \/ \E i \in Inst, o \in {"message", "none"} : ListenerPoll(i, o)
    \/ \E i \in Inst : ListenerWake(i)

\* Both registries hold their channel for topic t and both listeners are
\* in their consume loop.
ListenersReady ==
    /\ channels["t"] # 0
    /\ peer_channels["t"] # 0
    /\ \A i \in {channels["t"], peer_channels["t"]} :
          listener_task[i] \in {"polling", "publishing", "sleep"}

\* Application code publishes once both listeners are ready.
NextBridge ==
    \/ \E p \in Tasks, i \in Inst :
          /\ npub < MaxPublishes
          /\ ListenersReady
          /\ i = channels["t"]
          /\ Publish(p, i)
    \/ BridgeSteps

SpecBridge == InitBridge /\ [][NextBridge]_vars

\* The event loop runs what is ready, the broker completes a send, a
\* sleep(0.01) ends, and get_message hands over a queued message within
\* finitely many polls.
FairBridge ==
    /\ WF_vars(Continue)
    /\ \A i \in Inst : WF_vars(SetupStart(i))
    /\ \A i \in Inst : WF_vars(ListenerCheck(i))
    /\ \A i \in Inst : WF_vars(ListenerWake(i))
    /\ \A p \in Tasks : WF_vars(SendDone(p, TRUE))
    /\ \A i \in Inst : SF_vars(ListenerPoll(i, "message"))

SpecBridgeFair == SpecBridge /\ FairBridge

\* The same two registries, both with prefix "p:", and messages of every
\* kind.
InitWire ==
    /\ InitBridge
    /\ redis_channel_prefix["B"] = "p:"

NextWire ==
    \/ \E p \in Tasks, i \in Inst, k \in PyKinds :
          /\ npub < MaxWirePublishes
          /\ ListenersReady
          /\ i = channels["t"]
          /\ PublishPayload(p, i, k)
    \/ BridgeSteps

SpecWire == InitWire /\ [][NextWire]_vars

\* Beyond FairRedis: a sleep(0.01) ends, and a subscriber coroutine that
\* was awaited completes, by returning or by raising.
FairConsume ==
    /\ \A i \in Inst : WF_vars(ListenerWake(i))
    /\ \A p \in Procs : WF_vars(\E o \in Outcomes : AsyncResume(p, o))

SpecRedisLive == SpecRedis /\ FairRedis /\ FairConsume

\* A registry that was asked for the broker and could not have it: the
\* redis package is missing, or building the client raised.  Channels are
\* created, subscribed and published to.
InitDegraded ==
    /\ Init
    /\ obs.requested
    /\ obs.degraded # "none"
    /\ redis_channel_prefix = [r \in Regs |-> DefaultPrefix]

NextDegraded ==
    \/ \E t \in Topics : GetOrCreate(t)
    \/ \E i \in Inst, cb \in SyncCbs : Subscribe(i, cb)
    \/ \E i \in Inst, cb \in {"a1"} : SubscribeAsync(i, cb)
    \/ \E p \in Tasks, i \in Inst : npub < MaxPublishes /\ Publish(p, i)
    \/ \E p \in Tasks, cb \in SyncCbs, o \in Outcomes :
          SyncInvoke(p, cb, <<"none", NoCb>>, o)
    \/ \E p \in Tasks : SyncEnd(p)
    \/ \E p \in Tasks, cb \in AsyncCbs, o \in Outcomes :
          AsyncInvoke(p, cb, <<"none", NoCb>>, o)
    \/ \E p \in Tasks : AsyncEnd(p)

SpecDegraded == InitDegraded /\ [][NextDegraded]_vars

\* One local channel whose subscribers come and go between publishes and
\* while a publish awaits a subscriber; the subscribers themselves do not
\* call back into the channel.
NextUnsub ==
    \/ \E t \in {"t"} : GetOrCreate(t)
    \/ \E i \in Inst, cb \in SyncCbs : Subscribe(i, cb)
    \/ \E i \in Inst, cb \in SyncCbs : Unsubscribe(i, cb)
    \/ \E i \in Inst, cb \in AsyncCbs : SubscribeAsync(i, cb)
    \/ \E i \in Inst, cb \in AsyncCbs : UnsubscribeAsync(i, cb)
    \/ \E p \in Tasks, i \in Inst : npub < MaxPublishes /\ Publish(p, i)
    \/ \E p \in Tasks, cb \in SyncCbs :
          SyncInvoke(p, cb, <<"none", NoCb>>, "return")
    \/ \E p \in Tasks : SyncEnd(p)
    \/ \E p \in Tasks, cb \in AsyncCbs, m \in {"return", "suspend"} :
          AsyncInvoke(p, cb, <<"none", NoCb>>, m)
    \/ \E p \in Tasks : AsyncResume(p, "return")
    \/ \E p \in Tasks : AsyncEnd(p)

SpecUnsub == InitLocal /\ [][NextUnsub]_vars

\* One local channel with asynchronous subscribers only; a subscriber
\* returns, raises or suspends, and a suspended one may never complete.
NextFanout ==
    \/ \E t \in {"t"} : GetOrCreate(t)
    \/ \E i \in Inst, cb \in AsyncCbs : SubscribeAsync(i, cb)
    \/ \E p \in Tasks, i \in Inst : npub < MaxPublishes /\ Publish(p, i)
    \/ \E p \in Tasks : SyncEnd(p)
    \/ \E p \in Tasks, cb \in AsyncCbs, m \in Modes :
          AsyncInvoke(p, cb, <<"none", NoCb>>, m)
    \/ \E p \in Tasks, o \in Outcomes : AsyncResume(p, o)
    \/ \E p \in Tasks : AsyncEnd(p)

SpecFanout == InitLocal /\ [][NextFanout]_vars

\* The event loop runs the task that holds it on to its next await.  Whether
\* a suspended subscriber ever completes is up to the subscriber.
SpecFanoutFair == SpecFanout /\ WF_vars(Continue)

\* The broker process of SpecRedis in which application code goes on using
\* a channel whose listener has given up: it subscribes, unsubscribes and
\* publishes.
GaveUp(i) == listener_task[i] = "done"

NextGiveUp ==
    \/ NextRedis
    \/ \E i \in Inst : GaveUp(i) /\ Subscribe(i, "s1")
    \/ \E i \in Inst : GaveUp(i) /\ Unsubscribe(i, "s1")
    \/ \E i \in Inst : GaveUp(i) /\ UnsubscribeAsync(i, "a1")
    \/ \E p \in Tasks, cb \in SyncCbs, o \in Outcomes :
          SyncInvoke(p, cb, <<"none", NoCb>>, o)

SpecGiveUp == InitRedis /\ [][NextGiveUp]_vars

\* One distributed channel on a working broker with subscriber a1.  The
\* application publishes dicts and objects without to_dict; the text of
\* each comes back to the channel's own listener.
NextDecode ==
    \/ GetOrCreate("t")
    \/ \E i \in Inst : SubscribeAsync(i, "a1")
    \/ \E p \in Tasks, i \in Inst, k \in {"dict", "object"} :
          npub < MaxPublishes /\ PublishPayload(p, i, k)
    \/ \E p \in Procs : SyncEnd(p)
    \/ \E p \in Procs, cb \in AsyncCbs :
          AsyncInvoke(p, cb, <<"none", NoCb>>, "return")
    \/ \E p \in Procs : AsyncEnd(p)
    \/ \E p \in Procs : SendDone(p, TRUE)
    \/ \E i \in Inst : SetupStart(i)
    \/ \E i \in Inst : SetupFinish(i, TRUE)
    \/ \E i \in Inst : ListenerCheck(i)
    \/ \E i \in Inst, o \in {"message", "none"} : ListenerPoll(i, o)
    \/ \E i \in Inst : ListenerWake(i)

SpecDecode == InitRedis /\ [][NextDecode]_vars

\* The broker process of SpecRedis with a subscriber that also leaves: the
\* application task and the listener publish on one channel, each
\* suspended at its awaits while the other runs, and registry and
\* subscription calls are made in between.
NextAtomic ==
    \/ NextRedis
    \/ \E i \in Inst : UnsubscribeAsync(i, "a1")

SpecAtomic == InitRedis /\ [][NextAtomic]_vars

\* The module's default registry: get_pubsub_manager is called with any
\* arguments, with the redis package present or not and the client
\* building or not.
NextSingleton ==
    \E req \in BOOLEAN, pfx \in Prefixes, avail \in BOOLEAN, built \in Builds :
        obs.mgr.calls < MaxCalls /\ GetPubsubManager(req, pfx, avail, built)

SpecSingleton == InitLocal /\ [][NextSingleton]_vars

\* The HTTP service: users and allowed MCPs are stored, and POST /mcp/add
\* is called for stored and for unknown users and allowed MCPs.
Requests ==
    [user_address : Addresses, allowed_mcp_id : AllowedIds,
     fields : FieldValues]

NextHttp ==
    \/ \E a \in Addresses : AddUser(a)
    \/ AddAllowedMcp
    \/ \E req \in Requests : AddMcp(req)

SpecHttp == InitLocal /\ [][NextHttp]_vars

\* One distributed channel without subscribers on a working broker.  The
\* application publishes more often than the history holds, and the
\* listener appends what comes back from the broker to the same history.
\* The application publishes while fewer than MaxBacklog messages wait for
\* the listener.
NextHistRedis ==
    \/ GetOrCreate("t")
    \/ \E p \in Tasks, i \in Inst :
          /\ npub < MaxHistPublishes
          /\ Len(inbox[i]) < MaxBacklog
          /\ PublishTick(p, i)
    \/ \E p \in Procs : SyncEnd(p)
    \/ \E p \in Procs : AsyncEnd(p)
    \/ \E p \in Procs : SendDone(p, TRUE)
    \/ \E i \in Inst : SetupStart(i)
    \/ \E i \in Inst : SetupFinish(i, TRUE)
    \/ \E i \in Inst : ListenerCheck(i)
    \/ \E i \in Inst : ListenerPoll(i, "message")
    \/ \E i \in Inst : ListenerWake(i)

SpecHistRedis == InitRedis /\ [][NextHistRedis]_vars

\* Two application tasks publishing on one local channel with the
\* asynchronous subscribers a1 and a2: while the publish call of one task
\* is suspended at a subscriber, the other task publishes.
NextOrder ==
    \/ GetOrCreate("t")
    \/ \E i \in Inst, cb \in AsyncCbs : SubscribeAsync(i, cb)
    \/ \E p \in AllTasks, i \in Inst : npub < MaxPublishes /\ Publish(p, i)
    \/ \E p \in AllTasks : SyncEnd(p)
    \/ \E p \in AllTasks, cb \in AsyncCbs, m \in {"return", "suspend"} :
          AsyncInvoke(p, cb, <<"none", NoCb>>, m)
    \/ \E p \in AllTasks : AsyncResume(p, "return")
    \/ \E p \in AllTasks : AsyncEnd(p)

SpecOrder == InitLocal /\ [][NextOrder]_vars

\* An application that holds one redis_config dict and constructs its
\* registries from it, in any order and any number of times, then asks
\* each for the channel of topic t.
InitConfig == \E cfg \in Configs : InitWith(cfg)

NextConfig ==
    \/ \E r \in Regs, req \in BOOLEAN, avail \in BOOLEAN, built \in Builds :
          Construct(r, req, avail, built)
    \/ \E t \in {"t"} : GetOrCreate(t)
    \/ \E t \in {"t"} : PeerGetOrCreate(t)

SpecConfig == InitConfig /\ [][NextConfig]_vars

\* Two registries, constructed with or without the broker, whose channels
\* are created and removed.
NextCreate ==
    \/ \E t \in Topics : GetOrCreate(t)
    \/ \E t \in Topics : PeerGetOrCreate(t)
    \/ \E t \in Topics : Remove(t)

SpecCreate == Init /\ [][NextCreate]_vars

\* The registry alone: channels are created, removed, looked up and listed.
NextLookup ==
    \/ \E t \in Topics : GetOrCreate(t)
    \/ \E t \in Topics : Remove(t)
    \/ \E t \in Topics : GetChannel(t)
    \/ ListChannels

SpecLookup == InitLocal /\ [][NextLookup]_vars

\* One local channel without subscribers that is published to more often
\* than its history holds.
NextHist ==
    \/ \E t \in {"t"} : GetOrCreate(t)
    \/ \E p \in Tasks, i \in Inst : npub < MaxHistPublishes /\ Publish(p, i)
    \/ \E p \in Tasks : SyncEnd(p)
    \/ \E p \in Tasks : AsyncEnd(p)

SpecHist == InitLocal /\ [][NextHist]_vars

(* ============================ properties ============================== *)
Min(a, b) == IF a < b THEN a ELSE b

\* The last min(k, max_history_length) of the messages Dict(1) .. Dict(k),
\* in publish order.
LastMessages(k) ==
    LET n == Min(k, max_history_length)
    IN  [j \in 1..n |-> Dict(k - n + j)]

\* C1: after k publish calls on one channel, each awaited before the next
\* and with no other writer, history is the last min(k, max_history_length)
\* messages in publish order.
C1_HistoryIsLastMessages ==
    \A i \in Inst :
        kind[i] # "none" =>
            /\ Len(history[i]) = Min(npub, max_history_length)
            /\ \A j \in 1..Len(history[i]) :
                  history[i][j] = LastMessages(npub)[j]

\* More than max_history_length publishes have returned and the oldest
\* messages are gone.
C1_Witness ==
    /\ npub > max_history_length
    /\ \A p \in Tasks : pc[p] = "idle" /\ frame[p].result = "returned"
    /\ \E i \in Inst :
          /\ Len(history[i]) = max_history_length
          /\ history[i][1] = Dict(npub - max_history_length + 1)
          /\ history[i][max_history_length] = Dict(npub)

(* ------------------------- fan-out properties ------------------------- *)
\* Callback cb was invoked with message m.
Got(cb, m) == \E k \in 1..Len(received[cb]) : received[cb][k] = m

\* How often callback cb was invoked with message m.
Count(cb, m) == Cardinality({k \in 1..Len(received[cb]) : received[cb][k] = m})

\* The callbacks in the two copies the publish call of proc p iterates.
Snapshot(p) == Held(frame[p].snapS) \cup Held(frame[p].snapA)

\* Both loops of p's publish call visited every entry of their copy, and
\* every coroutine that was started has completed.
FanoutComplete(p) ==
    /\ frame[p].invS = frame[p].snapS
    /\ frame[p].invA = frame[p].snapA
    /\ frame[p].finA = frame[p].snapA
    /\ frame[p].cur = NoCb

\* C2: a subscriber that raises does not keep the other subscribers of the
\* fan-out from receiving the message, publish never raises to its caller,
\* and the caller's next publish reaches every subscriber, the one that
\* failed included.
C2_FailureIsolated ==
    \A p \in Procs :
        /\ frame[p].result # "raised"
        /\ (/\ frame[p].result = "returned"
            /\ frame[p].failed \cup frame[p].prev_failed # {})
           => \A cb \in Snapshot(p) : Got(cb, frame[p].msg)

\* The second publish of a caller has returned; on the first one every
\* subscriber raised, and all three subscribers received both messages.
C2_Witness ==
    \E p \in Tasks :
        /\ frame[p].result = "returned"
        /\ frame[p].msg = Dict(2)
        /\ frame[p].prev_failed = Cbs
        /\ Snapshot(p) = Cbs
        /\ \A cb \in Cbs : received[cb] = <<Dict(1), Dict(2)>>

\* C3: whatever subscribe/unsubscribe calls were made, a subscriber set
\* holds a callback at most once, so a publish invokes a callback that was
\* subscribed several times exactly once.
C3_SubscribedOnce ==
    /\ \A i \in Inst :
          /\ \A cb \in SyncCbs : subscribers[i][cb] <= 1
          /\ \A cb \in AsyncCbs : async_subscribers[i][cb] <= 1
    /\ \A p \in Procs :
          frame[p].result \in {"running", "returned"} =>
             /\ \A cb \in Cbs : Count(cb, frame[p].msg) <= 1
             /\ frame[p].result = "returned" =>
                   \A cb \in Snapshot(p) : Count(cb, frame[p].msg) = 1

\* A publish has returned that was called when every callback had been
\* subscribed more than once, and it invoked each of them once.
C3_Witness ==
    \E p \in Tasks :
        /\ frame[p].result = "returned"
        /\ frame[p].dup0
        /\ Snapshot(p) = Cbs
        /\ \A cb \in Cbs : Count(cb, frame[p].msg) = 1

\* C5: publish returns only after every synchronous subscriber of its copy
\* has run and every asynchronous one has been awaited to completion.
C5_ReturnsAfterFanout ==
    \A p \in Procs :
        frame[p].result = "returned" =>
            /\ FanoutComplete(p)
            /\ \A cb \in Snapshot(p) : Got(cb, frame[p].msg)

\* A publish with one synchronous and two asynchronous subscribers has
\* returned.
C5_Witness ==
    \E p \in Tasks :
        /\ frame[p].result = "returned"
        /\ Snapshot(p) = Cbs
        /\ frame[p].finA = frame[p].snapA
        /\ \A cb \in Cbs : Got(cb, frame[p].msg)

\* C6 as claimed: a publish invokes exactly the callbacks that were
\* registered when it was called.
C6_InvokedAreRegisteredAtCall ==
    \A p \in Procs :
        frame[p].result = "returned" =>
            Held(frame[p].invS) \cup Held(frame[p].invA) = frame[p].reg0

\* C6, amended: each loop invokes the callbacks of its own copy and no
\* others, whatever subscribe/unsubscribe calls are made after the copy was
\* taken; the synchronous copy is the set registered when publish was
\* called, the asynchronous copy is taken when the synchronous loop ends.
C6_SnapshotPerLoop ==
    \A p \in Procs :
        frame[p].result \in {"running", "returned"} =>
            /\ Held(frame[p].snapS) = frame[p].reg0 \cap SyncCbs
            /\ \A cb \in SyncCbs : frame[p].invS[cb] <= frame[p].snapS[cb]
            /\ \A cb \in AsyncCbs : frame[p].invA[cb] <= frame[p].snapA[cb]
            /\ frame[p].result = "returned" =>
                  /\ frame[p].invS = frame[p].snapS
                  /\ frame[p].invA = frame[p].snapA

\* The asynchronous loop of a publish is exhausted after invoking a1 alone,
\* while a2 was subscribed after the copy was taken.
C6_Witness ==
    \E p \in Tasks :
        /\ pc[p] = "async"
        /\ running = p
        /\ Held(frame[p].snapA) = {"a1"}
        /\ Held(frame[p].invA) = {"a1"}
        /\ Held(async_subscribers[frame[p].ch]) = {"a1", "a2"}
        /\ ~Got("a2", frame[p].msg)

\* Messages in sequence s appear in the order in which they were published.
InPublishOrder(s) ==
    \A j, k \in 1..Len(s) : j < k => s[j].v < s[k].v

\* C7: when one caller publishes m1 and, after that returned, m2, every
\* subscriber receives m1 before m2 and history holds m1 before m2.
C7_CallOrder ==
    /\ \A cb \in Cbs : InPublishOrder(received[cb])
    /\ \A i \in Inst : InPublishOrder(history[i])

\* Two publishes of one caller have returned and every subscriber and the
\* history hold both messages.
C7_Witness ==
    \E p \in Tasks :
        /\ frame[p].result = "returned"
        /\ frame[p].msg = Dict(2)
        /\ history[frame[p].ch] = <<Dict(1), Dict(2)>>
        /\ \A cb \in Cbs : received[cb] = <<Dict(1), Dict(2)>>

(* ------------------------- registry properties ------------------------ *)
\* Channel i is as PubSubChannel.__init__ leaves it.
Pristine(i) ==
    /\ subscribers[i] = EmptySync
    /\ async_subscribers[i] = EmptyAsync
    /\ history[i] = <<>>

\* C4: get_or_create_channel returns the channel it returned before unless
\* remove_channel was called in between; after a remove it returns a channel
\* that was never returned before, without subscribers or history; and the
\* registry holds one channel per topic, different topics having different
\* channels.
C4_RegistryIdentity ==
    [][\A t \in Topics :
          /\ (obs.last_got[t] # 0 /\ ~obs.removed_since[t])
                => obs'.last_got[t] = obs.last_got[t]
          /\ (obs.removed_since[t] /\ ~obs'.removed_since[t])
                => /\ obs'.last_got[t] \notin obs.retired \cup {obs.last_got[t]}
                   /\ kind[obs'.last_got[t]] = "none"
                   /\ subscribers'[obs'.last_got[t]] = EmptySync
                   /\ async_subscribers'[obs'.last_got[t]] = EmptyAsync
                   /\ history'[obs'.last_got[t]] = <<>>
          /\ obs'.last_got[t] # obs.last_got[t]
                => channels'[t] = obs'.last_got[t]
          /\ channels'[t] # 0
                => /\ channel_id'[channels'[t]] = t
                   /\ channels'[t] \notin obs'.retired
                   /\ \A u \in Topics \ {t} : channels'[u] # channels'[t]]_vars

\* Topic t was created, subscribed and published to, removed, and created
\* again: the registry holds a second, pristine channel for it.
C4_Witness ==
    \E t \in Topics, old \in Inst :
        /\ old \in obs.retired
        /\ channel_id[old] = t
        /\ history[old] # <<>>
        /\ subscribers[old] # EmptySync
        /\ channels[t] \notin {0, old}
        /\ obs.last_got[t] = channels[t]
        /\ ~obs.removed_since[t]
        /\ Pristine(channels[t])

(* -------------------------- bridge properties ------------------------- *)
\* C8: RedisPubSubChannel.publish sends to the broker only after the local
\* fan-out is complete, sends at most once, and a failed send ends the call
\* normally without touching history or what subscribers received.
C8_SendFailureCaught ==
    [][\A p \in Tasks :
          /\ frame'[p].sends <= 1
          /\ frame'[p].result # "raised"
          /\ (pc'[p] = "sending" \/ frame'[p].sends > 0) => FanoutComplete(p)'
          /\ (~frame[p].send_failed /\ frame'[p].send_failed)
                => /\ pc[p] = "sending"
                   /\ pc'[p] = "idle"
                   /\ frame'[p].result = "returned"
                   /\ history' = history
                   /\ received' = received
                   /\ inbox' = inbox]_vars

\* A publish whose broker send failed has returned; the message is in
\* history and the subscriber received it.
C8_Witness ==
    \E p \in Tasks :
        /\ frame[p].send_failed
        /\ frame[p].result = "returned"
        /\ frame[p].sends = 1
        /\ frame[p].snapA["a1"] = 1
        /\ Got("a1", frame[p].msg)
        /\ \E k \in 1..Len(history[frame[p].ch]) :
              history[frame[p].ch][k] = frame[p].msg

\* C9: a listener whose subscription does not become ready leaves the
\* readiness loop by returning once retry_count exceeds max_retries; it
\* sleeps at most max_retries times and does not wait forever.
C9_ListenerGivesUp ==
    /\ [](\A i \in Inst :
            /\ retry_count[i] <= max_retries + 1
            /\ listener_task[i] = "waiting" => retry_count[i] \in 1..max_retries
            /\ listener_task[i] = "done" =>
                  /\ retry_count[i] = max_retries + 1
                  /\ frame[Listener(i)].result = "none")
    /\ \A i \in Inst :
          (listener_task[i] = "waiting")
              ~> (Ready(i) \/ listener_task[i] = "done")

\* A listener has returned although its subscription never became ready:
\* the subscribe call failed.
C9_Witness ==
    \E i \in Inst :
        /\ listener_task[i] = "done"
        /\ setup_task[i] = "failed"
        /\ pubsub[i] = "unsubscribed"
        /\ retry_count[i] = max_retries + 1

\* C10: the listener polls the broker, and hands a broker message to the
\* local fan-out, only after it saw the subscription ready.
C10_PollOnlyWhenReady ==
    \A i \in Inst :
        (\/ listener_task[i] \in {"polling", "publishing", "sleep"}
         \/ frame[Listener(i)].result # "none")
            => pubsub[i] = "subscribed"

\* The listener has polled a broker message and delivered it.
C10_Witness ==
    \E i \in Inst :
        /\ listener_task[i] = "sleep"
        /\ frame[Listener(i)].result = "returned"
        /\ pubsub[i] = "subscribed"
        /\ Got("a1", frame[Listener(i)].msg)

\* The states of the listener task inside its while True loop.
Consuming == {"polling", "publishing", "sleep"}

C12_NoEcho ==
    /\ \A i \in Inst :
          /\ ~frame[Listener(i)].via_redis
          /\ frame[Listener(i)].sends = 0
          /\ pc[Listener(i)] # "sending"
          /\ Len(inbox[i]) <= obs.nsent
    /\ obs.nsent <= npub
    /\ (\A p \in Tasks : pc[p] = "idle") => obs.nsent = npub

\* Every message that was published has come back from the broker and was
\* delivered by the listener, which sent nothing: the broker saw as many
\* sends as there were publish calls.
C12_Witness ==
    \E i \in Inst :
        /\ npub >= 1
        /\ obs.nsent = npub
        /\ \A p \in Tasks : pc[p] = "idle"
        /\ inbox[i] = <<>>
        /\ frame[Listener(i)].result = "returned"
        /\ frame[Listener(i)].msg = Dict(npub)
        /\ listener_task[i] = "sleep"

(* ------------------------- degraded registry -------------------------- *)
\* C13: a registry that was asked for the broker while the client library
\* is missing or building the client failed is constructed all the same and
\* is local-only: every channel it returns is a plain PubSubChannel without
\* broker subscription, listener or broker send, and a publish on it appends
\* to history and reaches every subscriber as on a local registry.
C13_DegradesToLocal ==
    obs.degraded # "none" =>
        /\ ~use_redis
        /\ redis_client = "None"
        /\ obs.nsent = 0
        /\ \A i \in Inst :
              /\ kind[i] \in {"none", "local"}
              /\ pubsub[i] = "None"
              /\ setup_task[i] = "none"
              /\ listener_task[i] = "none"
        /\ \A t \in Topics :
              obs.last_got[t] # 0 => kind[obs.last_got[t]] = "local"
        /\ \A p \in Tasks :
              /\ ~frame[p].via_redis
              /\ frame[p].sends = 0
              /\ pc[p] # "sending"
              /\ frame[p].result = "returned" =>
                    /\ FanoutComplete(p)
                    /\ \A cb \in Snapshot(p) : Got(cb, frame[p].msg)
                    /\ history[frame[p].ch] # <<>>
                    /\ history[frame[p].ch][Len(history[frame[p].ch])]
                          = frame[p].msg

\* The client could not be built; the registry returned a local channel
\* for each topic, and a publish on one of them reached both subscribers.
C13_Witness ==
    \E p \in Tasks :
        /\ obs.requested
        /\ obs.degraded = "Exception"
        /\ \A t \in Topics :
              obs.last_got[t] # 0 /\ kind[obs.last_got[t]] = "local"
        /\ frame[p].result = "returned"
        /\ Snapshot(p) = {"s1", "a1"}
        /\ \A cb \in {"s1", "a1"} : Got(cb, frame[p].msg)

(* ------------------------ removal and cancellation -------------------- *)
\* C14: after remove_channel(topic) the removed channel delivers nothing
\* any more: no subscriber is invoked by a publish on the removed instance.
C14_NoDeliveryAfterRemove ==
    [][\A p \in Procs :
          (running = p /\ received' # received)
              => frame[p].ch \notin obs.retired]_vars

\* C15: a listener that was stopped by cancellation has given up its broker
\* subscription.
C15_CancelReleasesSubscription ==
    \A i \in Inst :
        listener_task[i] = "cancelled" => pubsub[i] # "subscribed"

(* --------------------------- two registries --------------------------- *)
\* Both registries were built with the same channel prefix.
SamePrefix == redis_channel_prefix["A"] = redis_channel_prefix["B"]

\* C16: with a working broker and both listeners for topic t ready, a
\* publish on registry A's channel t reaches A's local subscribers before
\* it returns and eventually reaches the subscriber of registry B's channel
\* t, provided both registries use the same prefix: the message travels on
\* the broker channel prefix + t, so with different prefixes nothing
\* arrives.
C16_Bridged ==
    /\ [](\A p \in Tasks :
            frame[p].result = "returned"
                => \A cb \in Snapshot(p) : Got(cb, frame[p].msg))
    /\ [](/\ channels["t"] # 0 =>
                redis_channel[channels["t"]]
                    = <<redis_channel_prefix["A"], "t">>
          /\ peer_channels["t"] # 0 =>
                redis_channel[peer_channels["t"]]
                    = <<redis_channel_prefix["B"], "t">>)
    /\ [](received["a2"] # <<>> => SamePrefix)
    /\ \A n \in 1..MaxPublishes :
          (/\ SamePrefix
           /\ ListenersReady
           /\ async_subscribers[peer_channels["t"]]["a2"] > 0
           /\ \E p \in Tasks : pc[p] # "idle" /\ frame[p].msg = Dict(n))
              ~> Got("a2", Dict(n))

\* Both messages published on A's channel were received by A's subscriber
\* and, through the broker channel p:t, by B's subscriber, in order.
C16_Witness ==
    /\ SamePrefix
    /\ ListenersReady
    /\ redis_channel[channels["t"]] = <<"p:", "t">>
    /\ redis_channel[peer_channels["t"]] = <<"p:", "t">>
    /\ Got("a1", Dict(1))
    /\ received["a2"] = <<Dict(1), Dict(2)>>

(* ------------------------------ wire form ----------------------------- *)
\* The messages published on registry A's channel for topic t.
PublishedOnA ==
    IF channels["t"] = 0 THEN <<>> ELSE history[channels["t"]]

\* What a2, the subscriber of registry B's channel, received through the
\* broker equals what was published for every message of one of kinds K.
RoundTrip(K) ==
    \A k \in 1..Len(received["a2"]), j \in 1..Len(PublishedOnA) :
        (/\ received["a2"][k].v = PublishedOnA[j].v
         /\ PublishedOnA[j].kind \in K)
            => received["a2"][k] = PublishedOnA[j]

\* The maps, arrays, strings, integers, booleans and null of the claim.
StructuredKinds ==
    {"dict", "dict_numstr", "dict_intkey", "list", "str", "int", "bool",
     "null"}

\* The same without the maps whose keys are not strings.
JsonEquivalentKinds ==
    {"dict", "dict_numstr", "list", "str", "int", "bool", "null"}

\* C17 as claimed: every map, array, string, integer, boolean or null is
\* delivered by the remote listener as the value that was published.
C17_RoundTripStructured == RoundTrip(StructuredKinds)

\* C17, amended: every JSON-equivalent message (a map with string keys, an
\* array, a string, an integer, a boolean, null) is delivered by the remote
\* listener as the value that was published.
C17_RoundTripJson == RoundTrip(JsonEquivalentKinds)

\* The subscriber of registry B received, through the broker, the map with
\* a string key that was published on registry A's channel.
C17_Witness ==
    /\ PublishedOnA = <<Payload("dict_numstr", 1)>>
    /\ received["a1"] # <<>>
    /\ received["a2"] = <<Payload("dict_numstr", 1)>>

\* The step in which the broker takes the message of p's publish puts text
\* w(message) on the connection of every subscriber of the channel.
Sends(w(_)) ==
    \A p \in Tasks :
        (pc[p] = "sending" /\ pc'[p] = "idle" /\ ~frame'[p].send_failed)
            => \A j \in Subscribed(frame[p].ch) :
                  inbox'[j] = Append(inbox[j], w(frame[p].msg))

\* The encoding as claimed: JSON text for a structured payload, the text
\* itself for a str, the string form for anything else.
ClaimedWire(m) ==
    IF m.kind \in {"dict", "list", "int", "float", "bool", "null"}
    THEN [form |-> "json",
          jtype |-> CASE m.kind = "dict" -> "object"
                      [] m.kind = "list" -> "array"
                      [] m.kind = "int" -> "number"
                      [] m.kind = "float" -> "number_float"
                      [] m.kind = "bool" -> "boolean"
                      [] m.kind = "null" -> "null",
          v |-> m.v]
    ELSE [form |-> "text", jtype |-> m.kind, v |-> m.v]

\* The encoding of the code: a str is sent as a JSON string, an object with
\* to_dict as the JSON object of to_dict(), a dict with its keys as strings.
ExpectedWire(m) ==
    IF m.kind \in {"tuple", "object"}
    THEN [form |-> "text", jtype |-> m.kind, v |-> m.v]
    ELSE [form |-> "json",
          jtype |-> CASE m.kind \in {"dict", "model"} -> "object"
                      [] m.kind \in {"dict_numstr", "dict_intkey"} ->
                            "object_numkey"
                      [] m.kind = "list" -> "array"
                      [] m.kind = "str" -> "string"
                      [] m.kind = "int" -> "number"
                      [] m.kind = "float" -> "number_float"
                      [] m.kind = "bool" -> "boolean"
                      [] m.kind = "null" -> "null",
          v |-> m.v]

\* C18 as claimed: a structured payload is sent as JSON text, a payload
\* that is already text unchanged, any other value as its string form.
C18_EncodingAsClaimed ==
    [][\A p \in Tasks :
          frame[p].msg.kind \in
              {"dict", "list", "int", "float", "bool", "null", "str",
               "tuple", "object"}
            => Sends(ClaimedWire)]_vars

\* C18, amended: a payload json can encode, text included, is sent as its
\* JSON text (a str as a quoted JSON string), an object with to_dict as the
\* JSON text of to_dict(), any other value as its string form; a dict or
\* list json cannot encode is not sent.
C18_Encoding ==
    [][/\ Sends(ExpectedWire)
       /\ \A p \in Tasks :
             pc'[p] = "sending" => frame'[p].msg.kind # "dict_bad"]_vars

\* A str was published and the broker holds it as a JSON string.
C18_Witness ==
    \E p \in Tasks, j \in Inst :
        /\ frame[p].msg = Payload("str", 1)
        /\ frame[p].result = "returned"
        /\ ~frame[p].send_failed
        /\ inbox[j] = <<[form |-> "json", jtype |-> "string", v |-> 1]>>

(* ------------------------- lookup and listing ------------------------- *)
\* The topics the caller finds in the object list_channels returned.
Listed == IF obs.listed.live THEN Keys ELSE obs.listed.topics

\* C19: get_channel returns the stored channel, or None, and creates
\* nothing; list_channels returns the topics in the registry and changes
\* nothing; and the list it returned stays as it was through later
\* get_or_create_channel and remove_channel calls.
C19_LookupsDoNotChange ==
    [][/\ obs'.got # obs.got =>
             /\ regVars' = regVars
             /\ obs'.got[2] = channels[obs'.got[1]]
             /\ obs'.last_got = obs.last_got
       /\ obs'.listed # obs.listed =>
             /\ regVars' = regVars
             /\ Listed' = Keys
       /\ obs'.listed = obs.listed => Listed' = Listed]_vars

\* Topics t and u were listed, t was removed afterwards and then looked
\* up: the lookup returned None and created nothing, a second topic list
\* holds u alone, and the first list still holds both.
C19_Witness ==
    \E t \in Topics :
        /\ obs.listed = [live |-> FALSE, topics |-> Topics]
        /\ Keys = Topics \ {t}
        /\ obs.got = <<t, 0>>
        /\ channels[t] = 0
        /\ t \in {channel_id[i] : i \in obs.retired}

(* ---------------------------- unsubscribe ----------------------------- *)
\* Removing cb from container s twice is removing it once, and removing a
\* callback that s does not hold leaves s as it is.
DiscardIdempotent(s) ==
    \A cb \in DOMAIN s :
        /\ SetDiscard(SetDiscard(s, cb), cb) = SetDiscard(s, cb)
        /\ s[cb] = 0 => SetDiscard(s, cb) = s
        /\ SetDiscard(s, cb)[cb] = 0
        /\ \A other \in DOMAIN s \ {cb} : SetDiscard(s, cb)[other] = s[other]

\* C20: unsubscribe and unsubscribe_async never fail and remove the
\* callback whether it was subscribed or not, so a channel holds exactly
\* the callbacks whose latest call was a subscribe, removing twice is
\* removing once, and a publish that starts after the unsubscribe of cb
\* does not invoke cb unless it was subscribed again before.
C20_UnsubscribeIdempotent ==
    /\ \A i \in Inst :
          /\ Held(subscribers[i]) \cup Held(async_subscribers[i])
                = {cb \in Cbs : <<i, cb>> \in obs.want}
          /\ DiscardIdempotent(subscribers[i])
          /\ DiscardIdempotent(async_subscribers[i])
    /\ \A p \in Procs :
          frame[p].result \in {"running", "returned"} =>
              Held(frame[p].invS) \cup Held(frame[p].invA) \subseteq frame[p].reg0

\* s1 and a1 received the first message and were unsubscribed; the second
\* publish, made after that, has returned and reached a2 alone.
C20_Witness ==
    \E p \in Tasks :
        /\ frame[p].result = "returned"
        /\ frame[p].msg = Dict(2)
        /\ frame[p].reg0 = {"a2"}
        /\ received["s1"] = <<Dict(1)>>
        /\ received["a1"] = <<Dict(1)>>
        /\ Got("a2", Dict(2))
        /\ obs.want = {<<frame[p].ch, "a2">>}

(* ----------------------- asynchronous fan-out ------------------------- *)
\* The publish call of proc p with message Dict(n) iterates a copy of the
\* asynchronous subscribers that holds cb.
InSnapshot(p, cb, n) ==
    /\ pc[p] \in {"async", "await"}
    /\ frame[p].msg = Dict(n)
    /\ frame[p].snapA[cb] > 0

\* Every subscriber coroutine that publish awaits completes.
SubscribersComplete ==
    \A p \in Tasks : WF_vars(\E o \in Outcomes : AsyncResume(p, o))

\* C21 as claimed: every asynchronous subscriber in the copy is eventually
\* invoked with the message, whether or not a subscriber invoked before it
\* ever leaves its suspension.
C21_InvokedWhileSuspended ==
    \A p \in Tasks, cb \in AsyncCbs, n \in 1..MaxPublishes :
        InSnapshot(p, cb, n) ~> Got(cb, Dict(n))

\* C21, amended: the asynchronous subscribers are awaited one after the
\* other, so while one of them is suspended no other subscriber of the
\* fan-out is invoked, and every subscriber in the copy is eventually
\* invoked provided each subscriber awaited before it completes, by
\* returning or by raising.
C21_InvokedAfterEarlierComplete ==
    /\ [][\A p \in Tasks :
            (pc[p] = "await" /\ pc'[p] = "await")
                => /\ frame'[p].invA = frame[p].invA
                   /\ received' = received]_vars
    /\ SubscribersComplete =>
          \A p \in Tasks, cb \in AsyncCbs, n \in 1..MaxPublishes :
              InSnapshot(p, cb, n) ~> Got(cb, Dict(n))

\* a1 was invoked with the message and is suspended; a2 is in the copy and
\* was not invoked yet.
C21_Witness ==
    \E p \in Tasks :
        /\ pc[p] = "await"
        /\ frame[p].cur = "a1"
        /\ Held(frame[p].snapA) = {"a1", "a2"}
        /\ Got("a1", frame[p].msg)
        /\ ~Got("a2", frame[p].msg)

(* ------------------------- shared connection -------------------------- *)
\* The registry is in broker mode and holds a client.
BrokerMode == use_redis /\ redis_client # "None"

\* C22: the client is built in the constructor and never again; every
\* RedisPubSubChannel a registry creates holds that client and is named
\* with the registry's prefix; and get_or_create_channel creates a
\* RedisPubSubChannel exactly when use_redis is set and the client exists,
\* a PubSubChannel otherwise.
C22_SharedConnection ==
    /\ [][/\ redis_client' = redis_client
          /\ use_redis' = use_redis
          /\ redis_channel_prefix' = redis_channel_prefix]_vars
    /\ [](\A i \in Inst :
            /\ kind[i] # "none" => (kind[i] = "redis" <=> BrokerMode)
            /\ kind[i] = "redis" =>
                  /\ channel_client[i] = redis_client
                  /\ channel_client[i] = "client"
            /\ kind[i] = "local" =>
                  /\ channel_client[i] = "None"
                  /\ redis_channel[i] = NoChannel)
    /\ [](\A t \in Topics :
            /\ (channels[t] # 0 /\ BrokerMode) =>
                  redis_channel[channels[t]]
                      = <<redis_channel_prefix["A"], t>>
            /\ (peer_channels[t] # 0 /\ BrokerMode) =>
                  redis_channel[peer_channels[t]]
                      = <<redis_channel_prefix["B"], t>>)

\* A registry in broker mode with prefix "p:" removed the channel it had
\* created and created another one: both are RedisPubSubChannels holding
\* the registry's client and prefix.
C22_Witness ==
    /\ BrokerMode
    /\ redis_channel_prefix["A"] = "p:"
    /\ obs.retired # {}
    /\ \E t \in Topics :
          /\ channels[t] # 0
          /\ channels[t] \notin obs.retired
          /\ redis_channel[channels[t]] = <<"p:", t>>
    /\ \A i \in Inst :
          /\ kind[i] = "redis"
          /\ channel_client[i] = redis_client
          /\ redis_channel[i][1] = "p:"

(* ----------------------- after the listener gave up ------------------- *)
\* Message m is the newest entry of channel i's history.
Newest(i, m) ==
    /\ history[i] # <<>>
    /\ history[i][Len(history[i])] = m

\* C23: a channel whose listener returned from the readiness loop stays
\* usable locally.  The listener stays ended; the channel holds exactly the
\* callbacks whose latest call was a subscribe; a publish on it never
\* raises, and when it has returned, with the broker send failed or not,
\* the message is in history and every subscriber of the fan-out got it.
C23_UsableAfterGiveUp ==
    /\ [][\A i \in Inst : GaveUp(i) => GaveUp(i)']_vars
    /\ [](\A i \in Inst :
            GaveUp(i) =>
               /\ Held(subscribers[i]) \cup Held(async_subscribers[i])
                     = {cb \in Cbs : <<i, cb>> \in obs.want}
               /\ frame[Listener(i)].result = "none"
               /\ \A p \in Tasks :
                     frame[p].ch = i =>
                        /\ frame[p].result # "raised"
                        /\ frame[p].result = "returned" =>
                              /\ FanoutComplete(p)
                              /\ \A cb \in Snapshot(p) : Got(cb, frame[p].msg)
                              /\ Newest(i, frame[p].msg))

\* The listener gave up; after that s1 was subscribed, and a publish whose
\* broker send failed has returned after reaching s1 and a1.
C23_Witness ==
    \E p \in Tasks, i \in Inst :
        /\ GaveUp(i)
        /\ frame[p].ch = i
        /\ frame[p].result = "returned"
        /\ frame[p].send_failed
        /\ Snapshot(p) = {"s1", "a1"}
        /\ Got("s1", frame[p].msg)
        /\ Got("a1", frame[p].msg)
        /\ Newest(i, frame[p].msg)

(* --------------------------- decode fallback -------------------------- *)
\* The listener of channel i takes a payload from the broker in this step.
Takes(i) ==
    /\ listener_task[i] = "polling"
    /\ listener_task'[i] = "publishing"

\* C24: a broker payload that is not JSON text is handed to the local
\* fan-out as the text itself: the step that takes it appends the text to
\* history and counts as no failed cycle, every subscriber of the fan-out
\* receives the text, and the listener goes on consuming.
C24_DecodeFallback ==
    /\ [][\A i \in Inst :
            (Takes(i) /\ Head(inbox[i]).form = "text") =>
                /\ frame'[Listener(i)].msg = RawText(Head(inbox[i]))
                /\ history'[i] = HistoryAppend(history[i],
                                               RawText(Head(inbox[i])))
                /\ obs'.poll_failed = obs.poll_failed
                /\ inbox'[i] = Tail(inbox[i])]_vars
    /\ [][\A i \in Inst :
            listener_task[i] \in Consuming
                => listener_task'[i] \in Consuming]_vars
    /\ [](\A i \in Inst :
            /\ frame[Listener(i)].result # "raised"
            /\ frame[Listener(i)].result = "returned" =>
                  /\ FanoutComplete(Listener(i))
                  /\ \A cb \in Snapshot(Listener(i)) :
                        Got(cb, frame[Listener(i)].msg))

\* The listener delivered the text of the first message, an object's
\* string form, to a1 and recorded it, and has delivered the second
\* message after it.
C24_Witness ==
    \E i \in Inst :
        /\ Got("a1", [kind |-> "repr", v |-> 1])
        /\ \E k \in 1..Len(history[i]) :
              history[i][k] = [kind |-> "repr", v |-> 1]
        /\ frame[Listener(i)].result = "returned"
        /\ frame[Listener(i)].msg.v = 2
        /\ frame[Listener(i)].snapA["a1"] = 1
        /\ listener_task[i] = "sleep"
        /\ i \notin obs.poll_failed

(* ----------------------------- atomicity ------------------------------ *)
\* Proc p enters publish in this step.
Enters(p) == pc[p] = "idle" /\ pc'[p] = "sync"

\* Message m is in the history of channel i.
Recorded(i, m) == \E k \in 1..Len(history[i]) : history[i][k] = m

\* C25: whatever the interleaving of the application task, the listener
\* and the calls made between their awaits, every get_or_create_channel
\* call for a topic returns the one channel of that topic; history changes
\* only by a publish call appending its message whole, so that no append
\* of a concurrent publisher is lost; and the subscriber sets hold exactly
\* the callbacks whose latest call was a subscribe.
C25_AtomicMutations ==
    /\ [][\A t \in Topics :
            /\ obs.last_got[t] # 0 => obs'.last_got[t] = obs.last_got[t]
            /\ channels[t] # 0 => channels'[t] = channels[t]
            /\ obs'.last_got[t] # 0 => obs'.last_got[t] = channels'[t]]_vars
    /\ [][\A i \in Inst :
            \/ history'[i] = history[i]
                  /\ \A p \in Procs : Enters(p) => frame'[p].ch # i
            \/ \E p \in Procs :
                  /\ Enters(p)
                  /\ frame'[p].ch = i
                  /\ history'[i] = Append(history[i], frame'[p].msg)]_vars
    /\ [](\A p \in Procs :
            frame[p].result \in {"running", "returned"}
                => Recorded(frame[p].ch, frame[p].msg))
    /\ [](\A i \in Inst :
            Held(subscribers[i]) \cup Held(async_subscribers[i])
                = {cb \in Cbs : <<i, cb>> \in obs.want})

\* While the task's second publish is suspended at its subscriber, the
\* listener has delivered the first message coming back from the broker:
\* history holds the three appends in the order in which they were made.
C25_Witness ==
    \E p \in Tasks, i \in Inst :
        /\ pc[p] = "await"
        /\ frame[p].ch = i
        /\ frame[p].msg = Dict(2)
        /\ frame[Listener(i)].result = "returned"
        /\ frame[Listener(i)].msg = Dict(1)
        /\ history[i] = <<Dict(1), Dict(2), Dict(1)>>
        /\ obs.last_got["t"] = i

(* -------------------------- default registry -------------------------- *)
\* The registry the first get_pubsub_manager call constructed.
FirstManager ==
    NewManager(1, obs.mgr.first[1], obs.mgr.first[2], obs.mgr.first[3],
               obs.mgr.first[4])

\* C26: every get_pubsub_manager call returns the registry the first call
\* constructed: one PubSubManager is constructed, and its mode, client and
\* prefix are those the first call's arguments gave it, whatever the later
\* calls pass.
C26_Singleton ==
    /\ [][obs'.mgr.calls # obs.mgr.calls =>
             /\ obs'.mgr.returned = pubsub_manager_instance'.id
             /\ obs'.mgr.returned = 1
             /\ obs.mgr.calls > 0 =>
                   pubsub_manager_instance' = pubsub_manager_instance]_vars
    /\ [](obs.mgr.built <= 1)
    /\ [](obs.mgr.calls > 0 => pubsub_manager_instance = FirstManager)
    /\ [](obs.mgr.calls = 0 => pubsub_manager_instance = NoManager)

\* The first call asked for a local registry; a later call asked for the
\* broker with prefix "p:" and could have had it, and was given the local
\* registry of the first call.
C26_Witness ==
    /\ obs.mgr.calls >= 2
    /\ obs.mgr.first = <<FALSE, DefaultPrefix, TRUE, "ok">>
    /\ obs.mgr.last = <<TRUE, "p:", TRUE, "ok">>
    /\ obs.mgr.returned = 1
    /\ obs.mgr.built = 1
    /\ ~pubsub_manager_instance.use_redis
    /\ pubsub_manager_instance.redis_client = "None"
    /\ pubsub_manager_instance.redis_channel_prefix = DefaultPrefix

(* ---------------------------- HTTP service ---------------------------- *)
\* A POST /mcp/add request was answered in this step.
Answered ==
    \/ response' # response
    \/ obs'.request # obs.request
    \/ db'.mcps # db.mcps

\* C27: POST /mcp/add answers 404 "User not found" when the user is not
\* stored, whether or not the allowed MCP is, and 404 "Allowed MCP not
\* found" when the user is stored and the allowed MCP is not, storing
\* nothing in either case; when both are stored it stores one new record
\* holding the submitted fields and answers 201 with that record.
C27_AddMcpValidation ==
    [][Answered =>
          LET req == obs'.request
          IN  IF req.user_address \notin db.users
              THEN /\ response'.status = 404
                   /\ response'.detail = "User not found"
                   /\ db' = db
              ELSE IF req.allowed_mcp_id \notin db.allowed_mcps
              THEN /\ response'.status = 404
                   /\ response'.detail = "Allowed MCP not found"
                   /\ db' = db
              ELSE /\ response'.status = 201
                   /\ response'.body.user_address = req.user_address
                   /\ response'.body.allowed_mcp_id = req.allowed_mcp_id
                   /\ response'.body.fields = req.fields
                   /\ db'.mcps = Append(db.mcps, response'.body)
                   /\ db'.users = db.users
                   /\ db'.allowed_mcps = db.allowed_mcps]_vars

\* One record was stored for a known user and allowed MCP; the latest
\* request named neither a stored user nor a stored allowed MCP and was
\* answered 404 "User not found", and the table still holds the one record.
C27_Witness ==
    /\ Len(db.mcps) = 1
    /\ db.mcps[1].user_address \in db.users
    /\ db.mcps[1].allowed_mcp_id \in db.allowed_mcps
    /\ obs.request.user_address \notin db.users
    /\ obs.request.allowed_mcp_id \notin db.allowed_mcps
    /\ response.status = 404
    /\ response.detail = "User not found"

(* --------------------------- history bound ---------------------------- *)
\* C28: wherever a task is suspended or a subscriber runs, the history of
\* a channel holds at most max_history_length messages, with the
\* application and the listener of the channel appending to it in any
\* interleaving.
C28_HistoryBounded ==
    \A i \in Inst : Len(history[i]) <= max_history_length

\* The history is full, and the listener appends a message from the broker
\* to it while a publish call of the application is suspended in its
\* broker send.
C28_Witness ==
    \E p \in Tasks, i \in Inst :
        /\ npub > max_history_length
        /\ Len(history[i]) = max_history_length
        /\ pc[p] = "sending"
        /\ frame[p].ch = i
        /\ listener_task[i] = "publishing"
        /\ running = Listener(i)

(* ------------------------------- echo --------------------------------- *)
\* No value occurs twice in sequence q.
NoRepeat(q) == \A j, k \in 1..Len(q) : j # k => q[j] # q[k]

\* C29: on a distributed channel with a ready listener and a working
\* broker, a published message is delivered to each local subscriber once
\* and recorded in history once; the publish calls of the model carry
\* different messages, so no subscriber and no history holds a message
\* twice.
C29_DeliveredOnce ==
    /\ \A cb \in Cbs : NoRepeat(received[cb])
    /\ \A i \in Inst : NoRepeat(history[i])

(* ------------------------- concurrent publishers ---------------------- *)
\* The place of message m in sequence q, 0 if q does not hold it.
Position(q, m) ==
    IF \E k \in 1..Len(q) : q[k] = m
    THEN CHOOSE k \in 1..Len(q) : q[k] = m
    ELSE 0

\* C30: with several tasks publishing on one channel, every subscriber
\* receives the messages in the order in which they were appended to the
\* channel's history.
C30_SameOrderAsHistory ==
    \A cb \in Cbs, i \in Inst :
        \A j, k \in 1..Len(received[cb]) :
            (/\ j < k
             /\ Position(history[i], received[cb][j]) > 0
             /\ Position(history[i], received[cb][k]) > 0)
                => Position(history[i], received[cb][j])
                      < Position(history[i], received[cb][k])

(* ------------------------- configuration map -------------------------- *)
\* C31: constructing a registry does not modify the configuration map, so
\* two registries constructed from the same map have the same channel
\* prefix and the same broker parameters, and their channels for one topic
\* have the same broker topic.
C31_SameConfigSameTopic ==
    obs.from_config = Regs =>
        /\ redis_channel_prefix["A"] = redis_channel_prefix["B"]
        /\ redis_params["A"] = redis_params["B"]
        /\ \A t \in Topics :
              (channels[t] # 0 /\ peer_channels[t] # 0) =>
                  redis_channel[channels[t]]
                      = redis_channel[peer_channels[t]]

====
